---- MODULE Spec2Model ----
(***************************************************************************)
(* Offline-first login: the Session Coordinator (App.tsx), the Sync Engine *)
(* (SyncService), the credential cache and login functions (authService),  *)
(* the Local Store (IndexedDBService) and the remote store (Supabase auth  *)
(* and the user_details table with its row-level-security policies).       *)
(*                                                                         *)
(* JavaScript runs one callback at a time; every `await` is a point where  *)
(* other callbacks may run.  An action below is one run-to-completion      *)
(* stretch of a handler; a handler that is suspended across an await that  *)
(* matters (an in-flight reauth, a sync run) keeps its captured closure    *)
(* values in the state.                                                    *)
(***************************************************************************)
EXTENDS Integers, Sequences, FiniteSets, TLC

----------------------------------------------------------------------------
(* Bounds of the model *)

MaxClock == 1
MaxTimers == 2
MaxReauths == 1
MaxRuns == 2
MaxStreams == 3
MaxCalls == 2

(* Small value sets.  A user's email identifies the user: the remote store *)
(* maps every account email to one user id, and so does the model.         *)
Users == {"u1", "u2"}
DeviceUsers == {"u1"}
Passwords == {"p", "q"}
Names == {"Alice", "Alicia"}
Times == 0..MaxClock

Null == [null |-> TRUE]
NoSecret == <<>>
Silent == "<silent>"
AuthRequired == "Authentication required"
InvalidPassword == "Invalid password"
OtherError == "Failed to fetch"
NoError == ""
NoTime == 0 - 1
Messages == {AuthRequired, OtherError}

VARIABLES
    isOnline,         \* ConnectivityDetector.isOnline and App's isOnline state
    userSession,      \* App: UserSession | null
    showReauthModal,  \* App: reauthPending
    reauths,          \* handleReauth calls suspended on their awaits
    timers,           \* pending setTimeout(() => syncService.syncPendingData())
    isSyncing,        \* SyncService.isSyncing
    lastSyncTime,     \* SyncService.lastSyncTime
    runs,             \* syncPendingData invocations inside the try block
    recounts,         \* syncPendingData invocations inside the catch block, awaiting
                      \* getPendingSyncRecords: how many, by the message they caught
    cachedUsers,      \* Local Store: cachedUsers, by email
    userDetails,      \* Local Store: userDetails records
    nextId,           \* Local Store: userDetails autoIncrement key generator
    remoteDetails,    \* remote store: user_details rows, by user_id
    remotePw,         \* remote store: account password, by email
    sbUser,           \* remote store client: the signed-in user of the Supabase session
    now,              \* Date.now()
    faceData,         \* Local Store: faceData records
    remoteFaceData,   \* remote store: user_face_data descriptors, by user_id
    liveness,         \* result of the performLivenessCheck call made by the face
                      \* handler that ran last, if it made one
    resolved,         \* handleFaceLogin's locals at the end of its last call
    activeStream,     \* CameraManager.activeStream
    activeVideo,      \* CameraManager.activeVideo
    liveStreams,      \* streams handed out by getUserMedia whose tracks are not stopped
    srcObject,        \* HTMLVideoElement.srcObject, by video element
    cameraCalls,      \* getStream and releaseStream calls suspended on their awaits
    nextStream,       \* identity of the next stream getUserMedia hands out
    modalError,       \* ReauthModal: error, "" while the modal is not mounted
    modelsLoaded,     \* faceRecognitionService: modelsLoaded
    modelCalls,       \* faceRecognitionService: where the call of each exported
                      \* function stands, "idle" when none is under way
    listeners,        \* ConnectivityDetector.listeners
    calls,            \* the listener invocations made by the ConnectivityDetector
                      \* method that ran last, in order
    delivered,        \* the value each connectivity listener was last invoked with
    capture,          \* handleFaceLogin's capture loop: its locals
    sampling,         \* performLivenessCheck: its locals
    last              \* the handler step taken last: its name, its outcome, and the
                      \* status it handed to notifyListeners, if any

vars == <<isOnline, userSession, showReauthModal, reauths, timers, isSyncing,
          lastSyncTime, runs, recounts, cachedUsers, userDetails, nextId,
          remoteDetails, remotePw, sbUser, now, faceData, remoteFaceData, liveness,
          resolved, activeStream, activeVideo, liveStreams, srcObject, cameraCalls,
          nextStream, modalError, modelsLoaded, modelCalls, listeners, calls,
          delivered, capture, sampling, last>>

coordVars == <<userSession, showReauthModal, reauths, timers>>
syncVars == <<isSyncing, lastSyncTime, runs, recounts>>
localVars == <<cachedUsers, userDetails, nextId>>
remoteVars == <<remoteDetails, remotePw, sbUser>>
faceVars == <<faceData, remoteFaceData, liveness, resolved>>
cameraVars == <<activeStream, activeVideo, liveStreams, srcObject, cameraCalls, nextStream>>
modelVars == <<modelsLoaded, modelCalls>>
deviceVars == <<listeners, calls, delivered, capture, sampling>>

----------------------------------------------------------------------------
(* Outcomes of a call that crosses the network: the server answered, the   *)
(* client returned an error object, or the call threw.  With the browser   *)
(* offline the server is never reached.                                    *)

NetOutcomes(online) == IF online THEN {"ok", "error", "throw"} ELSE {"error", "throw"}

(* Outcomes of a Local Store request: onsuccess or onerror. *)
StoreOutcomes == {"ok", "fail"}

NoBroadcast == [isSyncing |-> FALSE, lastSyncTime |-> 0 - 1, pendingCount |-> 0 - 1,
                error |-> ""]

Step(op, res) == [op |-> op, res |-> res, status |-> NoBroadcast]

Broadcast(op, res, status) == [op |-> op, res |-> res, status |-> status]

----------------------------------------------------------------------------
(* authService: password verifier and reversible secret *)

hashPassword(password) == <<"sha256", password>>

encryptPassword(password) == <<"b64", password>>

decryptPassword(encrypted) == encrypted[2]

AuthFail(error) ==
    [success |-> FALSE, userId |-> "", isOfflineMode |-> FALSE, error |-> error]

AuthOk(userId, offline) ==
    [success |-> TRUE, userId |-> userId, isOfflineMode |-> offline, error |-> NoError]

(* supabase.auth.signInWithPassword: data.user is set iff the server was   *)
(* reached and the password is the account's.                              *)
signInAccepted(email, password, net) ==
    net = "ok" /\ remotePw[email] = password

loginOnline(email, password, net) ==
    IF net = "throw" THEN AuthFail("Network error")
    ELSE IF net = "error" THEN AuthFail(OtherError)
    ELSE IF remotePw[email] # password THEN AuthFail("Invalid login credentials")
    ELSE AuthOk(email, FALSE)

(* a loginOnline that caches nothing *)
loginOnlineCacheKept(cu, email, password, net) == cu

(* the cachedUsers store after loginOnline: cacheUser on success only *)
loginOnlineCache(cu, email, password, net) ==
    IF signInAccepted(email, password, net)
    THEN [cu EXCEPT ![email] = [passwordHash |-> hashPassword(password),
                                encryptedPassword |-> encryptPassword(password)]]
    ELSE cu

(* the Supabase client session after loginOnline *)
loginOnlineSession(sb, email, password, net) ==
    IF signInAccepted(email, password, net) THEN email ELSE sb

loginOffline(cu, email, password) ==
    IF cu[email] = Null
    THEN AuthFail("No credentials found. Please login online first.")
    ELSE IF cu[email].passwordHash # hashPassword(password)
    THEN AuthFail("Invalid credentials")
    ELSE AuthOk(email, TRUE)

login(cu, email, password, online, net) ==
    IF online
    THEN LET result == loginOnline(email, password, net)
         IN IF ~result.success THEN loginOffline(cu, email, password) ELSE result
    ELSE loginOffline(cu, email, password)

----------------------------------------------------------------------------
(* Local Store: userDetails *)

toISOString(t) == <<"iso", t>>

getTime(iso) == iso[2]

LocalRecord(id, userId, name, updatedAt, pendingSync) ==
    [id |-> id, userId |-> userId, name |-> name, updatedAt |-> updatedAt,
     pendingSync |-> pendingSync]

getUserDetails(store, userId) == {r \in store : r.userId = userId}

(* saveUserDetails: put under the id of the record the userId index finds, *)
(* or under a fresh autoIncrement id                                       *)
(* a saveUserDetails that puts the record without looking up the userId *)
saveUserDetailsInserted(store, id, userId, name, updatedAt, pendingSync) ==
    store \cup {LocalRecord(id, userId, name, updatedAt, pendingSync)}

(* saveUserDetails: look the userId up in the index, put under the id found *)
saveUserDetails(store, id, userId, name, updatedAt, pendingSync) ==
    LET existing == getUserDetails(store, userId)
    IN IF existing # {}
       THEN (store \ existing) \cup
            {LocalRecord((CHOOSE r \in existing : TRUE).id, userId, name, updatedAt, pendingSync)}
       ELSE store \cup {LocalRecord(id, userId, name, updatedAt, pendingSync)}

saveUserDetailsNextId(store, id, userId) ==
    IF getUserDetails(store, userId) # {} THEN id ELSE id + 1

RECURSIVE SortById(_)
SortById(S) ==
    IF S = {} THEN <<>>
    ELSE LET m == CHOOSE r \in S : \A q \in S : r.id <= q.id
         IN <<m>> \o SortById(S \ {m})

(* getPendingSyncRecords: getAll() in key order, filtered on pendingSync *)
getPendingSyncRecords(store) == SortById({r \in store : r.pendingSync = TRUE})

getPendingCount(store) == Len(getPendingSyncRecords(store))

(* a markAsSynced that puts the record back as it read it *)
markAsSyncedKept(store, id) == store

(* markAsSynced: re-read the record by id and put it back with the flag off *)
markAsSynced(store, id) ==
    {IF r.id = id THEN [r EXCEPT !.pendingSync = FALSE] ELSE r : r \in store}

----------------------------------------------------------------------------
(* Remote store: user_details under row level security.  A row is visible  *)
(* to, and writable by, the signed-in user it belongs to.                  *)

RemoteRow(name, updatedAt) == [name |-> name, updated_at |-> toISOString(updatedAt)]

remoteSelect(rem, sb, userId) == IF sb = userId THEN rem[userId] ELSE Null

(* update ... eq(user_id): rows the policy hides are not touched, no error *)
remoteUpdate(rem, sb, userId, row) ==
    IF sb = userId /\ rem[userId] # Null THEN [rem EXCEPT ![userId] = row] ELSE rem

(* insert: rejected by the policy, or by UNIQUE(user_id) *)
remoteInsertAllowed(rem, sb, userId) == sb = userId /\ rem[userId] = Null

remoteInsert(rem, sb, userId, row) ==
    IF remoteInsertAllowed(rem, sb, userId) THEN [rem EXCEPT ![userId] = row] ELSE rem

----------------------------------------------------------------------------
(* Session Coordinator (App.tsx) *)

Session(userId, offline) == [userId |-> userId, isOfflineMode |-> offline]

Reauth(S, pw, src) == [S |-> S, pw |-> pw, src |-> src]

(* connectivityListener(online) under the session S its closure holds:     *)
(* the handleReauth calls it starts ...                                     *)
listenerReauths(online, S) ==
    IF online /\ S # Null /\ S.isOfflineMode THEN {Reauth(S, Silent, "conn")} ELSE {}

(* the sync timers of a listener that does not ask for the pending count *)
listenerTimersUncounted(online, S, store) ==
    IF online /\ S # Null /\ ~S.isOfflineMode THEN 1 ELSE 0

(* ... and the sync timers it sets *)
listenerTimers(online, S, store) ==
    IF online /\ S # Null /\ ~S.isOfflineMode /\ getPendingCount(store) > 0 THEN 1 ELSE 0

(* window 'online' / 'offline' event: ConnectivityDetector then the listener *)
Connectivity(online) ==
    /\ isOnline # online
    /\ isOnline' = online
    /\ reauths' = reauths \cup listenerReauths(online, userSession)
    /\ Cardinality(reauths') <= MaxReauths
    /\ timers' = timers + listenerTimers(online, userSession, userDetails)
    /\ timers' <= MaxTimers
    /\ last' = Step("Connectivity", IF online THEN "online" ELSE "offline")
    /\ UNCHANGED <<faceVars, cameraVars, modelVars, deviceVars, modalError>>
    /\ UNCHANGED <<userSession, showReauthModal, syncVars, localVars, remoteVars, now>>

(* Login.handleLogin: login(), then handleLoginSuccess; the userSession    *)
(* change re-runs the effect, whose addListener calls the listener at once *)
Login(email, password, net) ==
    /\ userSession = Null
    /\ LET result == login(cachedUsers, email, password, isOnline, net)
           S == IF result.success THEN Session(result.userId, result.isOfflineMode)
                ELSE userSession
       IN /\ userSession' = S
          /\ cachedUsers' = IF isOnline
                            THEN loginOnlineCache(cachedUsers, email, password, net)
                            ELSE cachedUsers
          /\ sbUser' = IF isOnline
                       THEN loginOnlineSession(sbUser, email, password, net)
                       ELSE sbUser
          /\ IF result.success
             THEN /\ timers' = timers + (IF isOnline THEN 1 ELSE 0)
                                      + listenerTimers(isOnline, S, userDetails)
                  /\ reauths' = reauths \cup listenerReauths(isOnline, S)
             ELSE UNCHANGED <<timers, reauths>>
          /\ last' = Step("Login", IF result.success THEN "ok" ELSE "failed")
    /\ timers' <= MaxTimers
    /\ Cardinality(reauths') <= MaxReauths
    /\ UNCHANGED <<faceVars, cameraVars, modelVars, deviceVars, modalError>>
    /\ UNCHANGED <<isOnline, showReauthModal, syncVars, userDetails, nextId,
                   remoteDetails, remotePw, now>>

(* authService.logout: signOut inside try/catch, its returned error unread *)
logoutSession(sb, net) == IF net = "ok" THEN "none" ELSE sb

(* a handleLogout that waits for the remote sign-out to succeed *)
handleLogoutIfSignedOut(S, net) == IF net = "ok" THEN Null ELSE S

(* handleLogout *)
handleLogout(S, net) == Null

(* SyncIndicator.handleLogout: await logout(); onLogout() *)
Logout(net) ==
    /\ userSession # Null
    /\ sbUser' = logoutSession(sbUser, net)
    /\ userSession' = handleLogout(userSession, net)
    /\ reauths' = reauths \cup listenerReauths(isOnline, userSession')
    /\ timers' = timers + listenerTimers(isOnline, userSession', userDetails)
    /\ timers' <= MaxTimers
    /\ Cardinality(reauths') <= MaxReauths
    /\ modalError' = NoError
    /\ last' = Step("Logout", IF net = "ok" THEN "ok" ELSE "failed")
    /\ UNCHANGED <<faceVars, cameraVars, modelVars, deviceVars>>
    /\ UNCHANGED <<isOnline, showReauthModal, syncVars, localVars, remoteDetails,
                   remotePw, now>>

(* ReauthModal.handleSubmit up to its await onReauth(password) *)
ReauthSubmit(password) ==
    /\ userSession # Null
    /\ showReauthModal
    /\ reauths' = reauths \cup {Reauth(userSession, password, "modal")}
    /\ Cardinality(reauths') <= MaxReauths
    /\ modalError' = NoError
    /\ last' = Step("ReauthSubmit", "")
    /\ UNCHANGED <<faceVars, cameraVars, modelVars, deviceVars>>
    /\ UNCHANGED <<isOnline, userSession, showReauthModal, timers, syncVars,
                   localVars, remoteVars, now>>

(* ReauthModal onCancel *)
ReauthCancel ==
    /\ userSession # Null
    /\ showReauthModal
    /\ showReauthModal' = FALSE
    /\ modalError' = NoError
    /\ last' = Step("ReauthCancel", "")
    /\ UNCHANGED <<faceVars, cameraVars, modelVars, deviceVars>>
    /\ UNCHANGED <<isOnline, userSession, reauths, timers, syncVars, localVars,
                   remoteVars, now>>

(* handleReauth: does the call reach the remote store? *)
reauthUsesRemote(cu, r) ==
    \/ r.pw # Silent
    \/ /\ cu[r.S.userId] # Null
       /\ cu[r.S.userId].encryptedPassword # NoSecret

reauthPassword(cu, r) ==
    IF r.pw # Silent THEN r.pw ELSE decryptPassword(cu[r.S.userId].encryptedPassword)

(* a handleReauth that takes every attempt for validated *)
handleReauthResultUnchecked(cu, r, net) == AuthOk(r.S.userId, FALSE)

(* handleReauth's loginResult *)
handleReauthResult(cu, r, net) ==
    IF reauthUsesRemote(cu, r)
    THEN loginOnline(r.S.userId, reauthPassword(cu, r), net)
    ELSE AuthFail("manual reauth required")

(* a handleReauth that puts the session back as it captured it *)
reauthSessionKept(S) == S

(* handleReauth's setUserSession on success *)
reauthSession(S) == [S EXCEPT !.isOfflineMode = FALSE]

(* a caller of handleReauth that drops a false result *)
reauthFailedModalKept(r, modal) == modal

(* what the caller of handleReauth does with a false result *)
reauthFailedModal(r, modal) == IF r.src \in {"conn", "sync"} THEN TRUE ELSE modal

(* a modal that shows the failure of any reauth finishing under it *)
reauthFailedErrorAny(r, mounted, error) == IF mounted THEN InvalidPassword ELSE error

(* ReauthModal.handleSubmit after onReauth returned false: the error the   *)
(* modal shows; the listeners that call handleReauth set none              *)
reauthFailedError(r, mounted, error) ==
    IF r.src = "modal" /\ mounted THEN InvalidPassword ELSE error

(* handleReauth after its awaits, and its caller's continuation; the modal *)
(* is mounted while showReauthModal is set under a session, and starts     *)
(* with no error each time it mounts                                       *)
ReauthFinish(r, net) ==
    /\ r \in reauths
    /\ LET result == handleReauthResult(cachedUsers, r, net)
           uses == reauthUsesRemote(cachedUsers, r)
       IN /\ cachedUsers' = IF uses
                            THEN loginOnlineCache(cachedUsers, r.S.userId,
                                                  reauthPassword(cachedUsers, r), net)
                            ELSE cachedUsers
          /\ sbUser' = IF uses
                       THEN loginOnlineSession(sbUser, r.S.userId,
                                               reauthPassword(cachedUsers, r), net)
                       ELSE sbUser
          /\ IF result.success
             THEN /\ userSession' = reauthSession(r.S)
                  /\ showReauthModal' = FALSE
                  /\ timers' = timers + 1
                                      + listenerTimers(isOnline, userSession', userDetails)
                  /\ reauths' = (reauths \ {r}) \cup listenerReauths(isOnline, userSession')
                  /\ modalError' = NoError
             ELSE /\ showReauthModal' = reauthFailedModal(r, showReauthModal)
                  /\ modalError' = reauthFailedError(r, showReauthModal /\ userSession # Null,
                                                     modalError)
                  /\ reauths' = reauths \ {r}
                  /\ UNCHANGED <<userSession, timers>>
          /\ last' = Step("ReauthFinish", IF result.success THEN "ok" ELSE "failed")
    /\ timers' <= MaxTimers
    /\ UNCHANGED <<faceVars, cameraVars, modelVars, deviceVars>>
    /\ UNCHANGED <<isOnline, syncVars, userDetails, nextId, remoteDetails, remotePw, now>>

----------------------------------------------------------------------------
(* UserDetailsForm.handleSubmit *)

(* the remote store after handleSubmit's select and update-or-insert *)
submitRemote(rem, sb, userId, name, updatedAt, selNet, wrNet) ==
    LET existing == IF selNet = "ok" THEN remoteSelect(rem, sb, userId) ELSE Null
        row == RemoteRow(name, updatedAt)
    IN IF selNet = "throw" \/ wrNet # "ok" THEN rem
       ELSE IF existing # Null THEN remoteUpdate(rem, sb, userId, row)
       ELSE remoteInsert(rem, sb, userId, row)

Save(name, selNet, wrNet) ==
    /\ userSession # Null
    /\ userDetails' = saveUserDetails(userDetails, nextId, userSession.userId, name,
                                      now, ~isOnline)
    /\ nextId' = saveUserDetailsNextId(userDetails, nextId, userSession.userId)
    /\ remoteDetails' = IF isOnline
                        THEN submitRemote(remoteDetails, sbUser, userSession.userId,
                                          name, now, selNet, wrNet)
                        ELSE remoteDetails
    /\ last' = Step("Save", "")
    /\ UNCHANGED <<faceVars, cameraVars, modelVars, deviceVars, modalError>>
    /\ UNCHANGED <<isOnline, coordVars, syncVars, cachedUsers, remotePw, sbUser, now>>

----------------------------------------------------------------------------
(* Sync Engine (SyncService) *)

Run(pc, queue) == [pc |-> pc, queue |-> queue]

Recounting == recounts[AuthRequired] + recounts[OtherError]

Status(syncing, time, count, error) ==
    [isSyncing |-> syncing, lastSyncTime |-> time, pendingCount |-> count,
     error |-> error]

(* App's syncListener under the session S its closure holds *)
syncListenerReauths(S, status) ==
    IF status.error = AuthRequired /\ S # Null /\ S.isOfflineMode
    THEN {Reauth(S, Silent, "sync")}
    ELSE {}

(* a guard that lets every call through *)
syncGuardOpen(syncing) == FALSE

(* the guard of syncPendingData *)
syncGuard(syncing) == syncing

(* a catch block that leaves the flag as it found it *)
catchIsSyncingKept(syncing) == syncing

(* the catch block's first statement: this.isSyncing after it *)
catchIsSyncing(syncing) == FALSE

(* a sync timer fires: syncPendingData up to its first await *)
SyncCall ==
    /\ timers > 0
    /\ timers' = timers - 1
    /\ IF syncGuard(isSyncing)
       THEN /\ last' = Step("SyncCall", "noop")
            /\ UNCHANGED syncVars
       ELSE /\ Cardinality(runs) + Recounting < MaxRuns
            /\ isSyncing' = TRUE
            /\ runs' = runs \cup {Run("fetch", <<>>)}
            /\ last' = Broadcast("SyncCall", "run", Status(TRUE, NoTime, 0, NoError))
            /\ UNCHANGED <<lastSyncTime, recounts>>
    /\ UNCHANGED <<faceVars, cameraVars, modelVars, deviceVars, modalError>>
    /\ UNCHANGED <<isOnline, userSession, showReauthModal, reauths, localVars,
                   remoteVars, now>>

(* syncPendingData resumed with the pending set, or with its rejection *)
SyncFetch(run, out) ==
    /\ run \in runs
    /\ run.pc = "fetch"
    /\ LET pending == getPendingSyncRecords(userDetails)
       IN IF out = "fail"
          THEN /\ isSyncing' = catchIsSyncing(isSyncing)
               /\ runs' = runs \ {run}
               /\ recounts' = [recounts EXCEPT ![OtherError] = @ + 1]
               /\ last' = Step("SyncFetch", "threw")
               /\ UNCHANGED lastSyncTime
          ELSE IF pending = <<>>
          THEN /\ isSyncing' = FALSE
               /\ lastSyncTime' = now
               /\ runs' = runs \ {run}
               /\ last' = Broadcast("SyncFetch", "done", Status(FALSE, now, 0, NoError))
               /\ UNCHANGED recounts
          ELSE /\ runs' = (runs \ {run}) \cup {Run("records", pending)}
               /\ last' = Step("SyncFetch", "records")
               /\ UNCHANGED <<isSyncing, lastSyncTime, recounts>>
    /\ UNCHANGED <<faceVars, cameraVars, modelVars, deviceVars, modalError>>
    /\ UNCHANGED <<isOnline, coordVars, localVars, remoteVars, now>>

(* syncRecord with the comparison of the two timestamps made non-strict *)
syncRecordWriteNonStrict(rem, sb, record, selNet) ==
    LET existing == IF selNet = "ok" THEN remoteSelect(rem, sb, record.userId) ELSE Null
    IN IF existing # Null
       THEN IF record.updatedAt >= getTime(existing.updated_at) THEN "update" ELSE "none"
       ELSE "insert"

(* syncRecord: which remote write it makes for `record` *)
syncRecordWrite(rem, sb, record, selNet) ==
    LET existing == IF selNet = "ok" THEN remoteSelect(rem, sb, record.userId) ELSE Null
    IN IF existing # Null
       THEN IF record.updatedAt > getTime(existing.updated_at) THEN "update" ELSE "none"
       ELSE "insert"

(* a syncRecord whose insert branch writes nothing *)
syncRecordRemoteNoInsert(rem, sb, record, selNet, wrNet) ==
    IF wrNet = "ok" /\ syncRecordWrite(rem, sb, record, selNet) = "update"
    THEN remoteUpdate(rem, sb, record.userId, RemoteRow(record.name, record.updatedAt))
    ELSE rem

(* syncRecord: the remote store after that write *)
syncRecordRemote(rem, sb, record, selNet, wrNet) ==
    LET write == syncRecordWrite(rem, sb, record, selNet)
        row == RemoteRow(record.name, record.updatedAt)
    IN IF wrNet # "ok" THEN rem
       ELSE IF write = "update" THEN remoteUpdate(rem, sb, record.userId, row)
       ELSE IF write = "insert" THEN remoteInsert(rem, sb, record.userId, row)
       ELSE rem

(* syncRecord throws: a remote call threw, or markAsSynced rejected *)
syncRecordThrows(selNet, wrNet, mark) ==
    selNet = "throw" \/ wrNet = "throw" \/ mark = "fail"

(* syncRecord reaches markAsSynced and it succeeds *)
syncRecordMarks(selNet, wrNet, mark) ==
    selNet # "throw" /\ wrNet # "throw" /\ mark = "ok"

(* one turn of the record loop, with the end of the run after the last one; *)
(* syncRecord's select, write and markAsSynced are taken in one step, so    *)
(* the remote row it compares with is the row it writes over                *)
SyncRecord(run, selNet, wrNet, mark, message) ==
    /\ run \in runs
    /\ run.pc = "records"
    /\ LET record == Head(run.queue)
           rest == Tail(run.queue)
       IN /\ remoteDetails' = IF selNet = "throw" THEN remoteDetails
                              ELSE syncRecordRemote(remoteDetails, sbUser, record,
                                                    selNet, wrNet)
          /\ userDetails' = IF syncRecordMarks(selNet, wrNet, mark)
                            THEN markAsSynced(userDetails, record.id)
                            ELSE userDetails
          /\ IF syncRecordThrows(selNet, wrNet, mark)
             THEN /\ isSyncing' = catchIsSyncing(isSyncing)
                  /\ runs' = runs \ {run}
                  /\ recounts' = [recounts EXCEPT ![message] = @ + 1]
                  /\ last' = Step("SyncRecord", "threw")
                  /\ UNCHANGED lastSyncTime
             ELSE IF rest = <<>>
             THEN /\ lastSyncTime' = now
                  /\ isSyncing' = FALSE
                  /\ runs' = runs \ {run}
                  /\ last' = Broadcast("SyncRecord",
                                       syncRecordWrite(remoteDetails, sbUser, record, selNet),
                                       Status(FALSE, now, 0, NoError))
                  /\ UNCHANGED recounts
             ELSE /\ runs' = (runs \ {run}) \cup {Run("records", rest)}
                  /\ last' = Step("SyncRecord",
                                  syncRecordWrite(remoteDetails, sbUser, record, selNet))
                  /\ UNCHANGED <<isSyncing, lastSyncTime, recounts>>
    /\ UNCHANGED <<faceVars, cameraVars, modelVars, deviceVars, modalError>>
    /\ UNCHANGED <<isOnline, coordVars, cachedUsers, nextId, remotePw, sbUser, now>>

(* the catch block after its await: the error broadcast, heard by App's    *)
(* syncListener; nothing is broadcast when the recount itself rejects      *)
SyncRecount(message, out) ==
    /\ recounts[message] > 0
    /\ recounts' = [recounts EXCEPT ![message] = @ - 1]
    /\ IF out = "ok"
       THEN LET status == Status(FALSE, NoTime, getPendingCount(userDetails), message)
            IN /\ last' = Broadcast("SyncRecount", "error", status)
               /\ reauths' = reauths \cup syncListenerReauths(userSession, status)
       ELSE /\ last' = Step("SyncRecount", "threw")
            /\ UNCHANGED reauths
    /\ Cardinality(reauths') <= MaxReauths
    /\ UNCHANGED <<faceVars, cameraVars, modelVars, deviceVars, modalError>>
    /\ UNCHANGED <<isOnline, userSession, showReauthModal, timers, isSyncing,
                   lastSyncTime, runs, localVars, remoteVars, now>>

----------------------------------------------------------------------------
(* The environment: time passes, the profile is edited elsewhere, the      *)
(* account password is changed elsewhere.                                  *)

Tick ==
    /\ now < MaxClock
    /\ now' = now + 1
    /\ last' = Step("Tick", "")
    /\ UNCHANGED <<faceVars, cameraVars, modelVars, deviceVars, modalError>>
    /\ UNCHANGED <<isOnline, coordVars, syncVars, localVars, remoteVars>>

RemoteEdit(u, name, t) ==
    /\ remoteDetails' = [remoteDetails EXCEPT ![u] = RemoteRow(name, t)]
    /\ remoteDetails' # remoteDetails
    /\ last' = Step("RemoteEdit", "")
    /\ UNCHANGED <<faceVars, cameraVars, modelVars, deviceVars, modalError>>
    /\ UNCHANGED <<isOnline, coordVars, syncVars, localVars, remotePw, sbUser, now>>

RemoteChangePassword(u, password) ==
    /\ remotePw[u] # password
    /\ remotePw' = [remotePw EXCEPT ![u] = password]
    /\ last' = Step("RemoteChangePassword", "")
    /\ UNCHANGED <<faceVars, cameraVars, modelVars, deviceVars, modalError>>
    /\ UNCHANGED <<isOnline, coordVars, syncVars, localVars, remoteDetails, sbUser, now>>

----------------------------------------------------------------------------
(* Face recognition: descriptors, the local gallery (Local Store faceData) *)
(* and the remote gallery (user_face_data under row level security).       *)
(* A descriptor is a vector of numbers; the model's vectors have one       *)
(* component, in tenths, so the Euclidean distance is the absolute         *)
(* difference and 0.7 is 7.                                                *)

Threshold == 7
Infinity == 1000
NoUser == "null"
NoRow == <<>>
NoLiveness == "none"
KeyOrder == <<"u1", "u2">>
GalleryDescriptors == {<<0>>, <<6>>}
CapturedDescriptors == {<<0>>, <<3>>, <<13>>}

FaceData(userId, faceDescriptor) == [userId |-> userId, faceDescriptor |-> faceDescriptor]

RemoteFace(user_id, face_descriptor) ==
    [user_id |-> user_id, face_descriptor |-> face_descriptor]

(* faceapi.euclideanDistance *)
compareFaceDescriptors(descriptor1, descriptor2) ==
    IF descriptor1[1] >= descriptor2[1] THEN descriptor1[1] - descriptor2[1]
    ELSE descriptor2[1] - descriptor1[1]

(* saveFaceData: put into the store keyed by userId *)
saveFaceData(store, fd) == {r \in store : r.userId # fd.userId} \cup {fd}

RECURSIVE SeqOfSet(_)
SeqOfSet(S) ==
    IF S = {} THEN <<>>
    ELSE LET m == CHOOSE r \in S : \A q \in S : r.faceDescriptor[1] <= q.faceDescriptor[1]
         IN <<m>> \o SeqOfSet(S \ {m})

RECURSIVE InKeyOrder(_, _)
InKeyOrder(store, keys) ==
    IF keys = <<>> THEN <<>>
    ELSE SeqOfSet({r \in store : r.userId = Head(keys)}) \o InKeyOrder(store, Tail(keys))

(* getAllFaceData: getAll() returns the records in key order *)
getAllFaceData(store) == InKeyOrder(store, KeyOrder)

hasFaceData(store, userId) ==
    \E r \in store : r.userId = userId /\ Len(r.faceDescriptor) > 0

(* select user_id, face_descriptor: the rows the policy shows to the       *)
(* signed-in user, which are the user's own                                *)
selectFaceData(rem, sb) ==
    IF sb \in Users /\ rem[sb] # NoRow THEN <<RemoteFace(sb, rem[sb])>> ELSE <<>>

(* upsert on user_id, under the insert and update policies *)
upsertFaceData(rem, sb, userId, descriptor) ==
    IF sb = userId THEN [rem EXCEPT ![userId] = descriptor] ELSE rem

Match(matchedUserId, bestMatchDistance) ==
    [matchedUserId |-> matchedUserId, bestMatchDistance |-> bestMatchDistance]

NoMatch == Match(NoUser, Infinity)

(* the scan of the local gallery with a non-strict comparison of distances *)
RECURSIVE localScanLastWins(_, _, _)
localScanLastWins(gallery, captured, best) ==
    IF gallery = <<>> THEN best
    ELSE LET fd == Head(gallery)
             distance == compareFaceDescriptors(captured, fd.faceDescriptor)
         IN localScanLastWins(Tail(gallery), captured,
                IF Len(fd.faceDescriptor) > 0 /\ distance < Threshold
                   /\ distance <= best.bestMatchDistance
                THEN Match(fd.userId, distance) ELSE best)

(* handleFaceLogin: the scan of the local gallery *)
RECURSIVE localScan(_, _, _)
localScan(gallery, captured, best) ==
    IF gallery = <<>> THEN best
    ELSE LET fd == Head(gallery)
             distance == compareFaceDescriptors(captured, fd.faceDescriptor)
         IN localScan(Tail(gallery), captured,
                IF Len(fd.faceDescriptor) > 0 /\ distance < Threshold
                   /\ distance < best.bestMatchDistance
                THEN Match(fd.userId, distance) ELSE best)

Scanned(best, store, cached) == [best |-> best, store |-> store, cached |-> cached]

(* a remote scan that puts every row with a descriptor into the local      *)
(* gallery, matched or not                                                 *)
RECURSIVE remoteScanCachesAll(_, _, _, _, _)
remoteScanCachesAll(gallery, captured, best, store, storeOut) ==
    IF gallery = <<>> THEN Scanned(best, store, best.matchedUserId # NoUser)
    ELSE LET fd == Head(gallery)
             distance == compareFaceDescriptors(captured, fd.face_descriptor)
             improves == Len(fd.face_descriptor) > 0 /\ distance < Threshold
                         /\ distance < best.bestMatchDistance
         IN remoteScanCachesAll(Tail(gallery), captured,
                                IF improves THEN Match(fd.user_id, distance) ELSE best,
                                saveFaceData(store, FaceData(fd.user_id, fd.face_descriptor)),
                                storeOut)

(* handleFaceLogin: the scan of the rows the remote store returned.  Every *)
(* row that improves the match is put into the local gallery; a put that   *)
(* fails throws out of the loop with the match set.                        *)
RECURSIVE remoteScan(_, _, _, _, _)
remoteScan(gallery, captured, best, store, storeOut) ==
    IF gallery = <<>> THEN Scanned(best, store, best.matchedUserId # NoUser)
    ELSE LET fd == Head(gallery)
             distance == compareFaceDescriptors(captured, fd.face_descriptor)
         IN IF ~(Len(fd.face_descriptor) > 0 /\ distance < Threshold
                 /\ distance < best.bestMatchDistance)
            THEN remoteScan(Tail(gallery), captured, best, store, storeOut)
            ELSE IF storeOut = "fail"
            THEN Scanned(Match(fd.user_id, distance), store, FALSE)
            ELSE remoteScan(Tail(gallery), captured, Match(fd.user_id, distance),
                            saveFaceData(store, FaceData(fd.user_id, fd.face_descriptor)),
                            storeOut)

(* a resolver that asks the remote store whenever the client is online *)
remoteWantedAlways(best, online) == online

(* handleFaceLogin: is the remote gallery asked for? *)
remoteWanted(best, online) == best.matchedUserId = NoUser /\ online

(* handleFaceLogin from the captured descriptor to matchedUserId *)
resolve(store, rem, sb, captured, online, selNet, storeOut) ==
    LET best == localScan(getAllFaceData(store), captured, NoMatch)
    IN IF remoteWanted(best, online) /\ selNet = "ok"
       THEN remoteScan(selectFaceData(rem, sb), captured, best, store, storeOut)
       ELSE Scanned(best, store, FALSE)

Resolution(captured, best, remoteScanned, cached) ==
    [captured |-> captured, matchedUserId |-> best.matchedUserId,
     bestMatchDistance |-> best.bestMatchDistance, remoteScanned |-> remoteScanned,
     cached |-> cached]

NoResolution == Resolution(NoRow, NoMatch, FALSE, FALSE)

(* a loginWithFace that reports every login as online-authenticated *)
loginWithFaceAlwaysOnline(cu, email, online, net) ==
    IF cu[email] = Null
    THEN AuthFail("User credentials not found. Please login with password first.")
    ELSE AuthOk(email, FALSE)

(* authService.loginWithFace *)
loginWithFace(cu, email, online, net) ==
    IF cu[email] = Null
    THEN AuthFail("User credentials not found. Please login with password first.")
    ELSE IF online /\ cu[email].encryptedPassword # NoSecret
            /\ signInAccepted(email, decryptPassword(cu[email].encryptedPassword), net)
    THEN AuthOk(email, FALSE)
    ELSE AuthOk(email, TRUE)

(* the Supabase client session after loginWithFace *)
loginWithFaceSession(sb, cu, email, online, net) ==
    IF /\ cu[email] # Null
       /\ online
       /\ cu[email].encryptedPassword # NoSecret
       /\ signInAccepted(email, decryptPassword(cu[email].encryptedPassword), net)
    THEN email ELSE sb

(* FaceLogin.handleFaceLogin with the models loaded by initializeCamera    *)
(* and a face in view: capture, resolve, then                              *)
(* loginWithFace and, a second later, onLoginSuccess (handleLoginSuccess)  *)
handleFaceLoginResolve(captured, selNet, storeOut, net) ==
    /\ userSession = Null
    /\ modelsLoaded
    /\ \E best \in {localScan(getAllFaceData(faceData), captured, NoMatch)} :
       \E out \in {resolve(faceData, remoteFaceData, sbUser, captured, isOnline,
                           selNet, storeOut)} :
       \E found \in {out.best.matchedUserId # NoUser
                     /\ cachedUsers[out.best.matchedUserId] # Null} :
       \E result \in {IF found
                      THEN loginWithFace(cachedUsers, out.best.matchedUserId, isOnline, net)
                      ELSE AuthFail("Face not recognized")} :
       \E S \in {IF result.success THEN Session(result.userId, result.isOfflineMode)
                 ELSE userSession} :
          /\ faceData' = out.store
          /\ resolved' = Resolution(captured, out.best,
                                    remoteWanted(best, isOnline) /\ selNet = "ok",
                                    out.cached)
          /\ liveness' = NoLiveness
          /\ userSession' = S
          /\ sbUser' = IF found
                       THEN loginWithFaceSession(sbUser, cachedUsers,
                                                 out.best.matchedUserId, isOnline, net)
                       ELSE sbUser
          /\ IF result.success
             THEN /\ timers' = timers + (IF isOnline THEN 1 ELSE 0)
                                      + listenerTimers(isOnline, S, userDetails)
                  /\ reauths' = reauths \cup listenerReauths(isOnline, S)
             ELSE UNCHANGED <<timers, reauths>>
          /\ last' = Step("FaceLogin", IF result.success THEN "ok" ELSE "failed")
    /\ timers' <= MaxTimers
    /\ Cardinality(reauths') <= MaxReauths
    /\ UNCHANGED <<isOnline, showReauthModal, syncVars, localVars, remoteDetails,
                   remotePw, now, remoteFaceData, cameraVars, modelVars, modalError>>

(* handleFaceLogin from a descriptor already captured *)
FaceLogin(captured, selNet, storeOut, net) ==
    /\ handleFaceLoginResolve(captured, selNet, storeOut, net)
    /\ UNCHANGED deviceVars

(* handleFaceLogin's capture loop.  Every attempt races                    *)
(* captureFaceDescriptor against a 3 second timer.                         *)
maxAttempts == 5
Extractions == {<<0>>, <<6>>, <<12>>}
NoDescriptor == <<>>
NoCapture == [pc |-> "idle", i |-> 0, descriptors |-> <<>>]

RECURSIVE sumAt(_, _)
sumAt(descriptors, k) ==
    IF descriptors = <<>> THEN 0 ELSE Head(descriptors)[k] + sumAt(Tail(descriptors), k)

getAverageDescriptor(descriptors) ==
    IF Len(descriptors) = 0 THEN NoDescriptor
    ELSE [k \in 1..Len(descriptors[1]) |-> sumAt(descriptors, k) \div Len(descriptors)]

(* `if (descriptors.length === 0)` ... return, `if (!capturedDescriptor)`   *)
(* ... return: does the handler stop before identity resolution?           *)
captureRejected(descriptors) ==
    Len(descriptors) = 0 \/ getAverageDescriptor(descriptors) = NoDescriptor

(* one pass of the loop body from the point the race settles, and what     *)
(* follows the loop when it was the last pass                              *)
captureStep(c, settled, descriptor) ==
    LET ds == IF settled = "resolved" /\ descriptor # NoDescriptor
              THEN Append(c.descriptors, descriptor) ELSE c.descriptors
        break == settled = "resolved" /\ Len(ds) >= 3
        over == break \/ c.i + 1 >= maxAttempts
    IN [pc |-> IF ~over THEN "attempt"
               ELSE IF captureRejected(ds) THEN "failed" ELSE "averaged",
        i |-> IF break THEN c.i ELSE c.i + 1,
        descriptors |-> ds]

captureFrame == <<isOnline, coordVars, syncVars, localVars, remoteVars, now, faceVars,
                  cameraVars, modelVars, listeners, calls, delivered, sampling, modalError>>

(* handleFaceLogin up to the first race *)
CaptureStart ==
    /\ userSession = Null
    /\ modelsLoaded
    /\ capture.pc \in {"idle", "failed"}
    /\ capture' = [pc |-> "attempt", i |-> 0, descriptors |-> <<>>]
    /\ last' = Step("CaptureStart", "")
    /\ UNCHANGED captureFrame

(* the race of attempt i settles: captureFaceDescriptor resolved, with a   *)
(* descriptor or with null, or the timer rejected                          *)
CaptureAttempt(settled, descriptor) ==
    /\ capture.pc = "attempt"
    /\ capture' = captureStep(capture, settled, descriptor)
    /\ last' = Step("CaptureAttempt", settled)
    /\ UNCHANGED captureFrame

(* handleFaceLogin from getAverageDescriptor on *)
CaptureResolve(selNet, storeOut, net) ==
    /\ capture.pc = "averaged"
    /\ handleFaceLoginResolve(getAverageDescriptor(capture.descriptors), selNet, storeOut, net)
    /\ capture' = [capture EXCEPT !.pc = "idle"]
    /\ UNCHANGED <<listeners, calls, delivered, sampling>>

----------------------------------------------------------------------------
(* performLivenessCheck (faceRecognitionService).  A sample keeps what the *)
(* analysis reads from a detection: the area of the face box               *)
(* (width * height), the distance between the two eye landmarks, and the   *)
(* descriptor, a vector of one component here.  Eye distances and          *)
(* descriptor components are in thousandths.  The analysis works on        *)
(* quotients; a quotient is kept as <<numerator, denominator>> and         *)
(* compared by cross multiplication, so no rounding enters.  Box areas and *)
(* eye distances of a detected face are positive.                          *)

sampleCount == 6
minSamples == 4

Sample(size, eye, descriptor) == [size |-> size, eye |-> eye, descriptor |-> descriptor]

Still == Sample(10000, 1000, <<0>>)
Faint == Sample(10010, 1001, <<2>>)
Nearer == Sample(10200, 1000, <<0>>)
Flexed == Sample(10200, 1010, <<0>>)
Alive == Sample(10200, 1010, <<20>>)
Swapped == Sample(10200, 1010, <<2000>>)
SampleKinds == {Still, Faint, Nearer, Flexed, Alive, Swapped}
NoDetection == Sample(0, 0, <<>>)

Quotient(num, den) == <<num, den>>
Thousandths(n) == Quotient(n, 1000)
less(p, q) == p[1] * q[2] < q[1] * p[2]
atLeast(p, q) == ~less(p, q)
abs(n) == IF n >= 0 THEN n ELSE 0 - n

(* Math.max(...values) *)
RECURSIVE max(_)
max(values) ==
    IF Len(values) = 1 THEN values[1]
    ELSE LET rest == max(Tail(values))
         IN IF less(Head(values), rest) THEN rest ELSE Head(values)

RECURSIVE sum(_)
sum(values) == IF values = <<>> THEN 0 ELSE Head(values) + sum(Tail(values))

(* boxSizes, avgSize, sizeDeviations, maxSizeDeviation:                    *)
(* |size - total/n| / (total/n) = |n * size - total| / total               *)
maxSizeDeviation(samples) ==
    LET boxSizes == [i \in 1..Len(samples) |-> samples[i].size]
        total == sum(boxSizes)
        sizeDeviations == [i \in 1..Len(samples) |->
                             Quotient(abs(Len(samples) * boxSizes[i] - total), total)]
    IN max(sizeDeviations)

(* landmarkDistances, maxLandmarkChange *)
maxLandmarkChange(samples) ==
    LET landmarkDistances == [i \in 1..(Len(samples) - 1) |->
                                Quotient(abs(samples[i + 1].eye - samples[i].eye),
                                         samples[i].eye)]
    IN max(landmarkDistances)

(* faceapi.euclideanDistance, in thousandths *)
euclideanDistance(d1, d2) == abs(d1[1] - d2[1])

(* descriptorChanges, avgDescriptorChange *)
avgDescriptorChange(samples) ==
    LET descriptorChanges == [i \in 1..(Len(samples) - 1) |->
                                euclideanDistance(samples[i].descriptor,
                                                  samples[i + 1].descriptor)]
    IN Quotient(sum(descriptorChanges), 1000 * Len(descriptorChanges))

NotEnoughSamples == "Could not capture enough samples. Please ensure good lighting."
PhotoSize == "Photo detected. Face size is too consistent. Please use a live camera."
PhotoLandmarks == "Photo detected. Facial landmarks are too rigid. Please use a live camera."
PhotoStatic == "Photo detected. Face appearance is too static. Please use a live camera."
LivenessFailed == "Liveness verification failed."
PhotoDetected == {PhotoSize, PhotoLandmarks, PhotoStatic}

Passed == [passed |-> TRUE, reason |-> NoError]
Failed(reason) == [passed |-> FALSE, reason |-> reason]
NoResult == Failed("")

(* the final decision *)
allChecksPassedSizeOnly(samples) == atLeast(maxSizeDeviation(samples), Thousandths(5))
allChecksPassed(samples) ==
    /\ atLeast(maxSizeDeviation(samples), Thousandths(5))
    /\ atLeast(maxLandmarkChange(samples), Thousandths(2))
    /\ atLeast(avgDescriptorChange(samples), Thousandths(8))
    /\ less(avgDescriptorChange(samples), Thousandths(300))

sizeTooConsistent(samples) == less(maxSizeDeviation(samples), Thousandths(5))

(* an analysis that leaves everything to the final decision *)
analyseFinalOnly(samples) ==
    IF Len(samples) < minSamples THEN Failed(NotEnoughSamples)
    ELSE IF ~allChecksPassed(samples) THEN Failed(LivenessFailed)
    ELSE Passed

(* performLivenessCheck from the end of the sampling loop on *)
analyse(samples) ==
    IF Len(samples) < minSamples THEN Failed(NotEnoughSamples)
    ELSE IF sizeTooConsistent(samples) THEN Failed(PhotoSize)
    ELSE IF less(maxLandmarkChange(samples), Thousandths(2)) THEN Failed(PhotoLandmarks)
    ELSE IF less(avgDescriptorChange(samples), Thousandths(8)) THEN Failed(PhotoStatic)
    ELSE IF ~allChecksPassed(samples) THEN Failed(LivenessFailed)
    ELSE Passed

NoSampling == [pc |-> "idle", i |-> 0, retries |-> 0, samples |-> <<>>, result |-> NoResult]

(* `retries--` after an attempt that gave no detection *)
retriesKept(retries) == retries
retriesAfterMiss(retries) == retries - 1

(* one pass of the while loop from the point the race settles, up to the   *)
(* next race, or through the analysis when the last slot is over           *)
sampleStep(c, settled, detection) ==
    LET sampleCaptured == settled = "resolved" /\ detection # NoDetection
        samples == IF sampleCaptured THEN Append(c.samples, detection) ELSE c.samples
        retries == IF sampleCaptured THEN c.retries ELSE retriesAfterMiss(c.retries)
        slotOver == ~(retries > 0 /\ ~sampleCaptured)
        i == IF slotOver THEN c.i + 1 ELSE c.i
    IN IF i < sampleCount
       THEN [pc |-> "attempt", i |-> i, retries |-> IF slotOver THEN 2 ELSE retries,
             samples |-> samples, result |-> NoResult]
       ELSE [pc |-> "done", i |-> i, retries |-> retries, samples |-> samples,
             result |-> analyse(samples)]

samplingFrame == <<isOnline, coordVars, syncVars, localVars, remoteVars, now, faceVars,
                   cameraVars, modelVars, listeners, calls, delivered, capture, modalError>>

(* performLivenessCheck up to the first race, the models being loaded *)
LivenessStart ==
    /\ modelsLoaded
    /\ sampling.pc \in {"idle", "done"}
    /\ sampling' = [pc |-> "attempt", i |-> 0, retries |-> 2, samples |-> <<>>,
                    result |-> NoResult]
    /\ last' = Step("LivenessStart", "")
    /\ UNCHANGED samplingFrame

(* the race of an attempt settles: the detection resolved, with a face or  *)
(* with none, or the timer rejected                                        *)
SampleAttempt(settled, detection) ==
    /\ sampling.pc = "attempt"
    /\ sampling' = sampleStep(sampling, settled, detection)
    /\ last' = Step("SampleAttempt", settled)
    /\ UNCHANGED samplingFrame

(* FaceRegistration.handleRegisterFace with the models loaded and a face   *)
(* in view; the component                                                  *)
(* is shown to an online-authenticated user without local face data        *)
RegisterFace(descriptor, passed, storeOut, net) ==
    /\ userSession # Null
    /\ modelsLoaded
    /\ ~userSession.isOfflineMode
    /\ ~hasFaceData(faceData, userSession.userId)
    /\ liveness' = IF passed THEN "passed" ELSE "failed"
    /\ faceData' = IF passed /\ storeOut = "ok"
                   THEN saveFaceData(faceData, FaceData(userSession.userId, descriptor))
                   ELSE faceData
    /\ remoteFaceData' = IF passed /\ storeOut = "ok" /\ isOnline /\ net = "ok"
                         THEN upsertFaceData(remoteFaceData, sbUser, userSession.userId,
                                             descriptor)
                         ELSE remoteFaceData
    /\ last' = Step("RegisterFace", IF passed /\ storeOut = "ok" THEN "ok" ELSE "failed")
    /\ UNCHANGED <<isOnline, coordVars, syncVars, localVars, remoteVars, now, resolved,
                   cameraVars, modelVars, deviceVars, modalError>>

(* the user registers a face on another device *)
RemoteEnroll(u, descriptor) ==
    /\ remoteFaceData[u] # descriptor
    /\ remoteFaceData' = [remoteFaceData EXCEPT ![u] = descriptor]
    /\ last' = Step("RemoteEnroll", "")
    /\ UNCHANGED <<isOnline, coordVars, syncVars, localVars, remoteVars, now, faceData,
                   liveness, resolved, cameraVars, modelVars, deviceVars, modalError>>

----------------------------------------------------------------------------
(* CameraManager *)

VideoElements == {"v1", "v2"}
NoStream == 0
NoVideo == "null"

CameraCall(id, op, pc, video) == [id |-> id, op |-> op, pc |-> pc, video |-> video]

FreeCall == CHOOSE id \in 1..MaxCalls : \A c \in cameraCalls : c.id # id

(* releaseStream up to its await: stop the tracks of the active stream and *)
(* clear the sink of the active video element                              *)
ReleaseBody ==
    /\ liveStreams' = liveStreams \ {activeStream}
    /\ activeStream' = NoStream
    /\ srcObject' = IF activeVideo # NoVideo
                    THEN [srcObject EXCEPT ![activeVideo] = NoStream]
                    ELSE srcObject
    /\ activeVideo' = NoVideo

appVars == <<isOnline, coordVars, syncVars, localVars, remoteVars, now, faceVars, modelVars, deviceVars,
            modalError>>

(* getStream(videoElement) up to the await inside its releaseStream call *)
GetStream(video) ==
    /\ Cardinality(cameraCalls) < MaxCalls
    /\ ReleaseBody
    /\ cameraCalls' = cameraCalls \cup {CameraCall(FreeCall, "getStream", "settle", video)}
    /\ last' = Step("GetStream", "")
    /\ UNCHANGED <<appVars, nextStream>>

(* releaseStream() up to its await *)
ReleaseStream ==
    /\ Cardinality(cameraCalls) < MaxCalls
    /\ ReleaseBody
    /\ cameraCalls' = cameraCalls \cup
                        {CameraCall(FreeCall, "releaseStream", "settle", NoVideo)}
    /\ last' = Step("ReleaseStream", "")
    /\ UNCHANGED <<appVars, nextStream>>

(* the 100 ms settle delay of releaseStream elapses: a releaseStream call  *)
(* returns, a getStream call goes on to call getUserMedia                  *)
Settle(c) ==
    /\ c \in cameraCalls
    /\ c.pc = "settle"
    /\ cameraCalls' = IF c.op = "getStream"
                      THEN (cameraCalls \ {c}) \cup {[c EXCEPT !.pc = "getUserMedia"]}
                      ELSE cameraCalls \ {c}
    /\ last' = Step("Settle", c.op)
    /\ UNCHANGED <<appVars, activeStream, activeVideo, liveStreams, srcObject, nextStream>>

(* getUserMedia settles: the stream becomes the active one, or the catch   *)
(* block clears the references and rethrows                                *)
GetUserMedia(c, out) ==
    /\ c \in cameraCalls
    /\ c.pc = "getUserMedia"
    /\ IF out = "ok"
       THEN /\ nextStream <= MaxStreams
            /\ liveStreams' = liveStreams \cup {nextStream}
            /\ activeStream' = nextStream
            /\ activeVideo' = c.video
            /\ srcObject' = [srcObject EXCEPT ![c.video] = nextStream]
            /\ nextStream' = nextStream + 1
            /\ cameraCalls' = (cameraCalls \ {c}) \cup {[c EXCEPT !.pc = "metadata"]}
       ELSE /\ activeStream' = NoStream
            /\ activeVideo' = NoVideo
            /\ cameraCalls' = cameraCalls \ {c}
            /\ UNCHANGED <<liveStreams, srcObject, nextStream>>
    /\ last' = Step("GetUserMedia", out)
    /\ UNCHANGED appVars

(* onloadedmetadata and play() resolve the call; a play error, an element  *)
(* error or the 10 s timeout call releaseStream and reject it              *)
Loaded(c, out) ==
    /\ c \in cameraCalls
    /\ c.pc = "metadata"
    /\ IF out = "playing"
       THEN /\ cameraCalls' = cameraCalls \ {c}
            /\ UNCHANGED <<activeStream, activeVideo, liveStreams, srcObject>>
       ELSE /\ ReleaseBody
            /\ cameraCalls' = (cameraCalls \ {c}) \cup
                                {CameraCall(c.id, "releaseStream", "settle", NoVideo)}
    /\ last' = Step("Loaded", out)
    /\ UNCHANGED <<appVars, nextStream>>

----------------------------------------------------------------------------
(* faceRecognitionService: lazy loading of the face-api.js models.  Each   *)
(* exported function has at most one call under way here; a call is        *)
(* "loading" while it awaits the four loadFromUri requests it started and  *)
(* "running" while it awaits a detection.                                  *)

ModelCallers == {"loadModels", "captureFaceDescriptor", "detectFace", "performLivenessCheck"}

Loading == {f \in ModelCallers : modelCalls[f] = "loading"}

(* What a call of f hands its caller: after loadModels threw (cause        *)
(* "loadFailed"), or after a detection that found a face ("face") or none  *)
(* ("noFace"); loadModels itself returns nothing once the models are       *)
(* loaded.  captureFaceDescriptor and detectFace catch whatever is thrown  *)
(* inside them; performLivenessCheck catches and returns a failed result.  *)
returned(f, cause) ==
    CASE f = "loadModels" ->
           IF cause = "loadFailed" THEN "throws" ELSE "void"
      [] f = "captureFaceDescriptor" ->
           IF cause = "face" THEN "descriptor" ELSE "null"
      [] f = "detectFace" ->
           IF cause = "face" THEN "true" ELSE "false"
      [] f = "performLivenessCheck" ->
           IF cause = "loadFailed" THEN "encountered an error" ELSE "result"

(* `if (modelsLoaded) return` of loadModels, `if (!modelsLoaded)` of the   *)
(* others: does the call enter the body of loadModels?                     *)
modelsWanted(loaded) == ~loaded

(* a call of f up to its first await *)
ModelCall(f) ==
    /\ modelCalls[f] \notin {"loading", "running"}
    /\ modelCalls' = [modelCalls EXCEPT ![f] =
                        IF modelsWanted(modelsLoaded) THEN "loading"
                        ELSE IF f = "loadModels" THEN returned(f, "loaded") ELSE "running"]
    /\ last' = Step("ModelCall", IF modelsWanted(modelsLoaded) THEN "load" ELSE "loaded")
    /\ UNCHANGED <<isOnline, coordVars, syncVars, localVars, remoteVars, now, faceVars,
                   cameraVars, deviceVars, modalError, modelsLoaded>>

(* Promise.all of the load that f started settles: loadModels sets the     *)
(* flag, or throws; the other functions go on to their detection, or catch *)
(* and return                                                              *)
ModelLoad(f, out) ==
    /\ modelCalls[f] = "loading"
    /\ modelsLoaded' = (modelsLoaded \/ out = "ok")
    /\ modelCalls' = [modelCalls EXCEPT ![f] =
                        IF out = "ok"
                        THEN IF f = "loadModels" THEN returned(f, "loaded") ELSE "running"
                        ELSE returned(f, "loadFailed")]
    /\ last' = Step("ModelLoad", out)
    /\ UNCHANGED <<isOnline, coordVars, syncVars, localVars, remoteVars, now, faceVars,
                   cameraVars, deviceVars, modalError>>

(* the detection f awaited settles, with a face or with none, and f        *)
(* returns                                                                 *)
ModelReturn(f, detection) ==
    /\ modelCalls[f] = "running"
    /\ modelCalls' = [modelCalls EXCEPT ![f] = returned(f, detection)]
    /\ last' = Step("ModelReturn", detection)
    /\ UNCHANGED <<isOnline, coordVars, syncVars, localVars, remoteVars, now, faceVars,
                   cameraVars, deviceVars, modalError, modelsLoaded>>

----------------------------------------------------------------------------
(* ConnectivityDetector (utils/connectivity) *)

MaxListeners == 3
ListenerNames == {"l1", "l2"}
NotDelivered == <<>>

Invocation(l, online) == [listener |-> l, value |-> online]

(* notifyListeners: listeners.forEach(listener => listener(isOnline)) *)
notifyListeners(ls, online) == [i \in 1..Len(ls) |-> Invocation(ls[i], online)]

(* a listener's view after a round of invocations *)
RECURSIVE deliver(_, _)
deliver(d, round) ==
    IF round = <<>> THEN d
    ELSE deliver([d EXCEPT ![Head(round).listener] = <<Head(round).value>>], Tail(round))

removeListenerFirst(ls, l) ==
    IF \E i \in 1..Len(ls) : ls[i] = l
    THEN LET k == CHOOSE i \in 1..Len(ls) : ls[i] = l /\ \A j \in 1..(i - 1) : ls[j] # l
         IN SubSeq(ls, 1, k - 1) \o SubSeq(ls, k + 1, Len(ls))
    ELSE ls

(* removeListener: listeners.filter(l => l !== listener) *)
removeListener(ls, l) == SelectSeq(ls, LAMBDA x : x # l)

getStatus == isOnline

detectorFrame == <<coordVars, syncVars, localVars, remoteVars, now, faceVars, cameraVars,
                   modelVars, capture, sampling, modalError>>

(* addListener(listener) *)
AddListener(l) ==
    /\ Len(listeners) < MaxListeners
    /\ listeners' = Append(listeners, l)
    /\ calls' = <<Invocation(l, isOnline)>>
    /\ delivered' = deliver(delivered, calls')
    /\ last' = Step("AddListener", l)
    /\ UNCHANGED <<isOnline, detectorFrame>>

(* removeListener(listener) *)
RemoveListener(l) ==
    /\ listeners' = removeListener(listeners, l)
    /\ calls' = <<>>
    /\ last' = Step("RemoveListener", l)
    /\ UNCHANGED <<isOnline, delivered, detectorFrame>>

(* handleOnline / handleOffline *)
HandleEvent(online) ==
    /\ isOnline' = online
    /\ calls' = notifyListeners(listeners, online)
    /\ delivered' = deliver(delivered, calls')
    /\ last' = Step("HandleEvent", IF online THEN "online" ELSE "offline")
    /\ UNCHANGED <<listeners, detectorFrame>>

----------------------------------------------------------------------------
(* Steps shared by the specifications *)

LegacyUser(password) ==
    [passwordHash |-> hashPassword(password), encryptedPassword |-> NoSecret]

CachedUser(password) ==
    [passwordHash |-> hashPassword(password),
     encryptedPassword |-> encryptPassword(password)]

InitCommon ==
    /\ showReauthModal = FALSE
    /\ reauths = {}
    /\ isSyncing = FALSE
    /\ lastSyncTime = NoTime
    /\ runs = {}
    /\ recounts = [m \in Messages |-> 0]
    /\ remoteDetails = [u \in Users |-> Null]
    /\ remotePw = [u \in Users |-> "p"]
    /\ now = 0
    /\ remoteFaceData = [u \in Users |-> NoRow]
    /\ liveness = NoLiveness
    /\ resolved = NoResolution
    /\ activeStream = NoStream
    /\ activeVideo = NoVideo
    /\ liveStreams = {}
    /\ srcObject = [v \in VideoElements |-> NoStream]
    /\ cameraCalls = {}
    /\ nextStream = 1
    /\ modalError = NoError
    /\ modelCalls = [f \in ModelCallers |-> "idle"]
    /\ listeners = <<>>
    /\ calls = <<>>
    /\ delivered = [l \in ListenerNames |-> NotDelivered]
    /\ capture = NoCapture
    /\ sampling = NoSampling
    /\ last = Step("Init", "")

SaveAny(names) ==
    \E name \in names :
      \E selNet \in (IF isOnline THEN NetOutcomes(TRUE) ELSE {"none"}) :
        \E wrNet \in (IF selNet \in {"ok", "error"} THEN NetOutcomes(TRUE) ELSE {"none"}) :
          Save(name, selNet, wrNet)

LoginAny ==
    \E u \in DeviceUsers, p \in Passwords :
      \E net \in (IF isOnline THEN NetOutcomes(TRUE) ELSE {"none"}) : Login(u, p, net)

ReauthFinishAny ==
    \E r \in reauths :
      \E net \in (IF reauthUsesRemote(cachedUsers, r) THEN NetOutcomes(isOnline)
                  ELSE {"none"}) : ReauthFinish(r, net)

SyncFetchAny(stores) == \E run \in runs, out \in stores : SyncFetch(run, out)

SyncRecordAny(messages, stores) ==
    \E run \in runs, selNet \in NetOutcomes(isOnline), mark \in stores,
       message \in messages :
      /\ run.pc = "records"
      /\ \E wrNet \in (IF selNet = "throw"
                          \/ syncRecordWrite(remoteDetails, sbUser,
                                             Head(run.queue), selNet) = "none"
                       THEN {"none"} ELSE NetOutcomes(isOnline)) :
           SyncRecord(run, selNet, wrNet, mark, message)

SyncRecountAny(stores) == \E message \in Messages, out \in stores : SyncRecount(message, out)

----------------------------------------------------------------------------
(* Specification Spec: the Session Coordinator with the Sync Engine under  *)
(* it, from a fresh install, or one upgraded from the release whose        *)
(* cachedUsers entries carry no encryptedPassword.  Profile values and the *)
(* clock are held to one value and the Local Store answers every request;  *)
(* SpecSync varies them.                                                   *)

Init ==
    /\ InitCommon
    /\ modelsLoaded = FALSE
    /\ faceData = {}
    /\ isOnline \in BOOLEAN
    /\ userSession = Null
    /\ timers = 0
    /\ cachedUsers \in {[u \in Users |-> Null],
                        [u \in Users |-> IF u \in DeviceUsers THEN LegacyUser("p") ELSE Null]}
    /\ userDetails = {}
    /\ nextId = 1
    /\ sbUser = "none"

Next ==
    \/ \E online \in BOOLEAN : Connectivity(online)
    \/ LoginAny
    \/ \E net \in NetOutcomes(isOnline) : Logout(net)
    \/ \E p \in Passwords : ReauthSubmit(p)
    \/ ReauthCancel
    \/ ReauthFinishAny
    \/ SaveAny({"Alice"})
    \/ SyncCall
    \/ SyncFetchAny({"ok"})
    \/ SyncRecordAny({AuthRequired}, {"ok"})
    \/ SyncRecountAny({"ok"})
    \/ \E u \in DeviceUsers, p \in Passwords : RemoteChangePassword(u, p)

Spec == Init /\ [][Next]_vars

----------------------------------------------------------------------------
(* Specification SpecSync: the Sync Engine under one signed-in user, as    *)
(* left by a successful online login of u1 on a device where u2 may have   *)
(* left an unsynced profile edit.  Time passes, the remote profile is      *)
(* edited elsewhere, and Local Store requests may fail.                    *)

InitSync ==
    /\ InitCommon
    /\ modelsLoaded = FALSE
    /\ faceData = {}
    /\ isOnline = TRUE
    /\ userSession = Session("u1", FALSE)
    /\ timers = 1
    /\ cachedUsers = [u \in Users |-> IF u \in DeviceUsers THEN CachedUser("p") ELSE Null]
    /\ \/ userDetails = {} /\ nextId = 1
       \/ userDetails = {LocalRecord(1, "u2", "Alice", 0, TRUE)} /\ nextId = 2
    /\ sbUser = "u1"

NextSync ==
    \/ \E online \in BOOLEAN : Connectivity(online)
    \/ SaveAny(Names)
    \/ SyncCall
    \/ SyncFetchAny(StoreOutcomes)
    \/ SyncRecordAny({OtherError}, StoreOutcomes)
    \/ SyncRecountAny(StoreOutcomes)
    \/ Tick
    \/ \E u \in DeviceUsers, name \in Names, t \in Times : RemoteEdit(u, name, t)

SpecSync == InitSync /\ [][NextSync]_vars

----------------------------------------------------------------------------
(* Properties of the Sync Engine, checked under SpecSync *)

NetResults == {"ok", "error", "throw", "none"}

Pushing(id) == {run \in runs : run.pc = "records"
                                /\ \E i \in 1..Len(run.queue) : run.queue[i].id = id}

(* C1: single-flight.  At most one syncPendingData invocation is past the  *)
(* isSyncing guard at any time, and no pending record is in the push queue *)
(* of more than one run.                                                   *)
C1_SingleFlight ==
    /\ Cardinality(runs) + Recounting <= 1
    /\ \A r \in userDetails : Cardinality(Pushing(r.id)) <= 1

(* C2: during a sync run a record's pendingSync goes from true to false    *)
(* only once the remote store holds the record: the flag of a pending      *)
(* record goes off in a syncRecord step only if the remote row of its user *)
(* then exists and is at least as new as the record.  A read or write that *)
(* failed leaves no such row, and so must leave the record pending.        *)
C2_ClearedOnlyWhenAcknowledged ==
    [][last'.op = "SyncRecord" =>
         \A r \in userDetails :
           (r.pendingSync /\ r \notin userDetails') =>
             /\ remoteDetails'[r.userId] # Null
             /\ getTime(remoteDetails'[r.userId].updated_at) >= r.updatedAt
      ]_vars

(* C3: last-writer-wins.  When syncRecord reads an existing remote row and *)
(* its calls succeed: the local record with the later updatedAt overwrites *)
(* the remote row with its fields; otherwise the remote store is unchanged;*)
(* either way the record's pendingSync flag is off afterwards.             *)
C3_LastWriterWins ==
    [][\A run \in runs, message \in Messages :
         (/\ run.pc = "records"
          /\ remoteSelect(remoteDetails, sbUser, Head(run.queue).userId) # Null
          /\ SyncRecord(run, "ok",
                        IF syncRecordWrite(remoteDetails, sbUser, Head(run.queue), "ok")
                           = "none" THEN "none" ELSE "ok",
                        "ok", message)) =>
           LET record == Head(run.queue)
               Tlocal == record.updatedAt
               Tremote == getTime(remoteDetails[record.userId].updated_at)
           IN /\ Tlocal > Tremote =>
                   remoteDetails'[record.userId] = RemoteRow(record.name, Tlocal)
              /\ Tlocal <= Tremote => remoteDetails' = remoteDetails
              /\ \A r \in userDetails' : r.id = record.id => ~r.pendingSync
      ]_vars

(* a run has just conceded u1's older edit to a newer remote row *)
C3_Witness ==
    /\ last.op = "SyncRecord"
    /\ last.res = "none"
    /\ \E r \in userDetails :
         /\ r.userId = "u1"
         /\ ~r.pendingSync
         /\ remoteDetails["u1"] # Null
         /\ getTime(remoteDetails["u1"].updated_at) > r.updatedAt
         /\ remoteDetails["u1"].name # r.name

----------------------------------------------------------------------------
(* Properties of the Session Coordinator, checked under Spec *)

OfflineSession == userSession # Null /\ userSession.isOfflineMode

(* C4: no sync run pushes to the remote store while the session is flagged *)
(* offline-authenticated: a syncRecord step that changes the remote store  *)
(* is never taken under a session with isOfflineMode = true.               *)
C4_NoPushWhileOffline ==
    [][(last'.op = "SyncRecord" /\ remoteDetails' # remoteDetails) => ~OfflineSession]_vars

(* C5: an offline-to-online event under an offline-authenticated session   *)
(* with pending writes starts a reauth attempt and no sync run; when that  *)
(* attempt succeeds the session is online-authenticated and a sync run is  *)
(* scheduled; when it fails the session is left as it was and              *)
(* showReauthModal is raised.                                              *)
C5_ReconnectReauth ==
    [][/\ (Connectivity(TRUE) /\ OfflineSession /\ getPendingCount(userDetails) > 0) =>
           /\ Reauth(userSession, Silent, "conn") \in reauths'
           /\ timers' = timers
       /\ \A r \in reauths, net \in NetResults :
            (r.src = "conn" /\ ReauthFinish(r, net)) =>
              IF handleReauthResult(cachedUsers, r, net).success
              THEN /\ userSession' # Null
                   /\ ~userSession'.isOfflineMode
                   /\ timers' > timers
              ELSE /\ userSession' = userSession
                   /\ showReauthModal' = TRUE
      ]_vars

(* the device has just come online under an offline session with a        *)
(* pending write, and the listener's reauth attempt is in flight           *)
C5_Witness ==
    /\ last.op = "Connectivity"
    /\ last.res = "online"
    /\ OfflineSession
    /\ getPendingCount(userDetails) > 0
    /\ Reauth(userSession, Silent, "conn") \in reauths

(* C6 as stated: an offline-to-online event under an online-authenticated  *)
(* session, or an offline-authenticated one with zero pending writes,      *)
(* schedules a sync run directly and starts no reauth attempt.             *)
C6_ReconnectSyncsDirectly ==
    [][(/\ Connectivity(TRUE)
        /\ userSession # Null
        /\ (~userSession.isOfflineMode \/ getPendingCount(userDetails) = 0)) =>
         /\ timers' = timers + 1
         /\ reauths' = reauths
      ]_vars

(* C6 as the code has it: an offline-to-online event under an              *)
(* offline-authenticated session starts a reauth attempt and no sync run,  *)
(* whatever the pending count; under an online-authenticated session it    *)
(* starts no reauth attempt and schedules a sync run exactly when pending  *)
(* writes exist.                                                           *)
C6_ReconnectByFlag ==
    [][(Connectivity(TRUE) /\ userSession # Null) =>
         IF userSession.isOfflineMode
         THEN /\ Reauth(userSession, Silent, "conn") \in reauths'
              /\ timers' = timers
         ELSE /\ reauths' = reauths
              /\ timers' = timers + (IF getPendingCount(userDetails) > 0 THEN 1 ELSE 0)
      ]_vars

(* the device has just come online under an offline session with nothing   *)
(* pending, and a reauth attempt is in flight all the same                 *)
C6_Witness ==
    /\ last.op = "Connectivity"
    /\ last.res = "online"
    /\ OfflineSession
    /\ getPendingCount(userDetails) = 0
    /\ Reauth(userSession, Silent, "conn") \in reauths
    /\ timers = 0

(* C7: a successful reauth, silent or prompted, leaves the session with    *)
(* isOfflineMode = false and showReauthModal = false and schedules a sync  *)
(* run; a failed reauth leaves the session as it was and schedules none.   *)
C7_ReauthOutcome ==
    [][\A r \in reauths, net \in NetResults :
         ReauthFinish(r, net) =>
           IF handleReauthResult(cachedUsers, r, net).success
           THEN /\ userSession' # Null
                /\ userSession'.isOfflineMode = FALSE
                /\ showReauthModal' = FALSE
                /\ timers' > timers
           ELSE /\ userSession' = userSession
                /\ timers' = timers
      ]_vars

(* a reauth has just succeeded *)
C7_Witness ==
    /\ last.op = "ReauthFinish"
    /\ last.res = "ok"
    /\ userSession # Null
    /\ ~userSession.isOfflineMode
    /\ ~showReauthModal
    /\ timers > 0

(* C8: whenever the Sync Engine broadcasts a status whose error is an      *)
(* authentication failure and a session exists, online-authenticated or    *)
(* not, the coordinator has a reauth attempt under way.                    *)
C8_AuthErrorReauth ==
    (last.op = "SyncRecount" /\ last.status.error = AuthRequired /\ userSession # Null)
      => \E r \in reauths : r.src = "sync"

(* C9: after an explicit logout there is no session, whatever the remote   *)
(* sign-out did.                                                           *)
C9_LogoutClears == last.op = "Logout" => userSession = Null

(* a logout whose remote sign-out failed has just run *)
C9_Witness == last.op = "Logout" /\ last.res = "failed" /\ userSession = Null

(* C10: an online login whose credential the remote store was reached with *)
(* and rejected yields no session; an offline login succeeds exactly when  *)
(* the cached verifier matches and leaves the remote client untouched.     *)
C10_RejectedLoginNoSession ==
    [][\A u \in DeviceUsers, p \in Passwords :
         /\ (isOnline /\ remotePw[u] # p /\ Login(u, p, "ok")) => userSession' = Null
         /\ (~isOnline /\ Login(u, p, "none")) =>
              /\ sbUser' = sbUser
              /\ (userSession' # Null) = loginOffline(cachedUsers, u, p).success
      ]_vars

----------------------------------------------------------------------------
(* Properties of the credential cache, checked under Spec *)

NotFound == AuthFail("No credentials found. Please login online first.")

(* C11: credential round trip.  Right after a login that loginOnline       *)
(* accepted with password p, loginOffline with p succeeds with             *)
(* isOfflineMode = true and loginOffline with any other password fails     *)
(* with 'Invalid credentials'; for an email with no cached credential      *)
(* loginOffline fails with the not-found error.                            *)
C11_CredentialRoundTrip ==
    /\ (last.op = "Login" /\ last.res = "ok" /\ ~userSession.isOfflineMode) =>
          LET u == userSession.userId
              p == remotePw[u]
          IN /\ loginOffline(cachedUsers, u, p) = AuthOk(u, TRUE)
             /\ \A q \in Passwords \ {p} :
                  loginOffline(cachedUsers, u, q) = AuthFail("Invalid credentials")
    /\ \A u \in Users, p \in Passwords :
         cachedUsers[u] = Null => loginOffline(cachedUsers, u, p) = NotFound

(* an online login with the changed password q has just replaced the       *)
(* cached credential, and u2 has none                                      *)
C11_Witness ==
    /\ last.op = "Login"
    /\ last.res = "ok"
    /\ ~userSession.isOfflineMode
    /\ remotePw[userSession.userId] = "q"
    /\ cachedUsers["u2"] = Null

----------------------------------------------------------------------------
(* Specification SpecQuiet: the Sync Engine under one signed-in user with  *)
(* edits made offline waiting in the Local Store and no further save: the  *)
(* form is not submitted again.  Sync timers, connectivity changes, remote *)
(* edits and failures are as in SpecSync.                                  *)

InitQuiet ==
    /\ InitCommon
    /\ modelsLoaded = FALSE
    /\ faceData = {}
    /\ isOnline = TRUE
    /\ userSession = Session("u1", FALSE)
    /\ timers = 1
    /\ cachedUsers = [u \in Users |-> IF u \in DeviceUsers THEN CachedUser("p") ELSE Null]
    /\ \/ userDetails = {LocalRecord(1, "u1", "Alice", 0, TRUE)} /\ nextId = 2
       \/ /\ userDetails = {LocalRecord(1, "u2", "Alice", 0, TRUE),
                             LocalRecord(2, "u1", "Alicia", 0, TRUE)}
          /\ nextId = 3
    /\ sbUser = "u1"

NextQuiet ==
    \/ \E online \in BOOLEAN : Connectivity(online)
    \/ SyncCall
    \/ SyncFetchAny(StoreOutcomes)
    \/ SyncRecordAny({OtherError}, StoreOutcomes)
    \/ SyncRecountAny(StoreOutcomes)
    \/ Tick
    \/ \E u \in DeviceUsers, name \in Names, t \in Times : RemoteEdit(u, name, t)

SpecQuiet == InitQuiet /\ [][NextQuiet]_vars

(* C12: idempotence.  With no local write after the first run's fetch,     *)
(* a run that completes leaves the pending count at 0, and once a run has  *)
(* completed no later run processes a record: it makes no remote write and *)
(* the pending count stays 0.                                              *)
C12_Idempotence ==
    /\ [](lastSyncTime # NoTime => getPendingCount(userDetails) = 0)
    /\ [][lastSyncTime # NoTime =>
            /\ last'.op # "SyncRecord"
            /\ (last'.op \in {"SyncCall", "SyncFetch", "SyncRecount"} =>
                  remoteDetails' = remoteDetails)]_vars

(* a second run has just completed over records that an earlier run synced *)
C12_Witness ==
    /\ last.op = "SyncFetch"
    /\ last.res = "done"
    /\ userDetails # {}
    /\ getPendingCount(userDetails) = 0

(* C13: for a pending record whose userId has no remote row, a syncRecord  *)
(* whose select and insert the remote store answers and accepts, and whose *)
(* markAsSynced succeeds, leaves a remote row with the record's fields and *)
(* the record's flag off, and the pending count is 0 when the record was   *)
(* the only pending one.                                                   *)
C13_InsertWhenAbsent ==
    [][\A run \in runs, message \in Messages :
         (/\ run.pc = "records"
          /\ Head(run.queue) \in userDetails
          /\ remoteDetails[Head(run.queue).userId] = Null
          /\ remoteInsertAllowed(remoteDetails, sbUser, Head(run.queue).userId)
          /\ SyncRecord(run, "ok", "ok", "ok", message)) =>
           LET record == Head(run.queue)
           IN /\ remoteDetails'[record.userId] = RemoteRow(record.name, record.updatedAt)
              /\ [record EXCEPT !.pendingSync = FALSE] \in userDetails'
              /\ getPendingSyncRecords(userDetails) = <<record>> =>
                   getPendingCount(userDetails') = 0
      ]_vars

(* a run has just inserted u1's only pending record *)
C13_Witness ==
    /\ last.op = "SyncRecord"
    /\ last.res = "insert"
    /\ getPendingCount(userDetails) = 0
    /\ \E r \in userDetails :
         /\ r.userId = "u1"
         /\ remoteDetails["u1"] = RemoteRow(r.name, r.updatedAt)

----------------------------------------------------------------------------
(* Specification SpecCalm: one user logged in online, every remote call is *)
(* made while the device is online and is answered and accepted, and every *)
(* Local Store request succeeds.  The user saves, online or offline, and   *)
(* connectivity comes and goes.                                            *)

InitCalm ==
    /\ InitCommon
    /\ modelsLoaded = FALSE
    /\ faceData = {}
    /\ isOnline = TRUE
    /\ userSession = Session("u1", FALSE)
    /\ timers = 1
    /\ cachedUsers = [u \in Users |-> IF u \in DeviceUsers THEN CachedUser("p") ELSE Null]
    /\ userDetails = {}
    /\ nextId = 1
    /\ sbUser = "u1"

SaveCalm ==
    \E name \in Names :
      Save(name, IF isOnline THEN "ok" ELSE "none", IF isOnline THEN "ok" ELSE "none")

SyncRecordCalm ==
    \E run \in runs :
      /\ isOnline
      /\ run.pc = "records"
      /\ SyncRecord(run, "ok",
                    IF syncRecordWrite(remoteDetails, sbUser, Head(run.queue), "ok") = "none"
                    THEN "none" ELSE "ok",
                    "ok", OtherError)

NextCalm ==
    \/ \E online \in BOOLEAN : Connectivity(online)
    \/ SaveCalm
    \/ SyncCall
    \/ SyncFetchAny({"ok"})
    \/ SyncRecordCalm
    \/ Tick

SpecCalm == InitCalm /\ [][NextCalm]_vars

(* the device is online, a user is logged in, and no sync timer, sync run  *)
(* or reauth is pending: without a further save or connectivity change no  *)
(* step of the program is enabled                                          *)
Quiescent ==
    /\ isOnline
    /\ userSession # Null
    /\ timers = 0
    /\ runs = {}
    /\ Recounting = 0
    /\ reauths = {}

(* C14: eventual consistency, in its finite form.  When the user is logged *)
(* in, the device is online, every remote call has succeeded and the       *)
(* program has nothing left to do, no profile record is pending and the    *)
(* remote row of every local record that is newer than it (or has none)    *)
(* equals the record.                                                      *)
C14_EventuallyConsistent ==
    Quiescent =>
      \A r \in userDetails :
        /\ ~r.pendingSync
        /\ (\/ remoteDetails[r.userId] = Null
            \/ r.updatedAt > getTime(remoteDetails[r.userId].updated_at))
             => remoteDetails[r.userId] = RemoteRow(r.name, r.updatedAt)

(* C15: every save writes the record to the Local Store, and the stored    *)
(* record has pendingSync = false only if the remote store holds a write   *)
(* of the same fields; when the remote write was not attempted, was        *)
(* rejected or failed, the stored record has pendingSync = true.           *)
C15_ClearedOnlyWhenConfirmed ==
    last.op = "Save" =>
      \E r \in userDetails :
        /\ r.userId = userSession.userId
        /\ ~r.pendingSync => remoteDetails[r.userId] = RemoteRow(r.name, r.updatedAt)

----------------------------------------------------------------------------
(* Specification SpecFace: face registration and face login on a device    *)
(* where u1 and u2 have logged in with their passwords before and u2 may   *)
(* have registered a face.  u1 has just logged in online.                  *)

InitFace ==
    /\ InitCommon
    /\ modelsLoaded = TRUE
    /\ isOnline = TRUE
    /\ userSession = Session("u1", FALSE)
    /\ timers = 1
    /\ cachedUsers = [u \in Users |-> CachedUser("p")]
    /\ userDetails = {}
    /\ nextId = 1
    /\ sbUser = "u1"
    /\ faceData \in {{}, {FaceData("u2", <<6>>)}}

FaceLoginAny ==
    \E captured \in CapturedDescriptors, storeOut \in StoreOutcomes :
      \E selNet \in (IF isOnline THEN {"ok", "error"} ELSE {"none"}) :
        FaceLogin(captured, selNet, storeOut, selNet)

RegisterFaceAny ==
    \E descriptor \in GalleryDescriptors, passed \in BOOLEAN, storeOut \in StoreOutcomes :
      \E net \in (IF isOnline THEN {"ok", "error"} ELSE {"none"}) :
        RegisterFace(descriptor, passed, storeOut, net)

NextFace ==
    \/ \E online \in BOOLEAN : Connectivity(online)
    \/ \E net \in (IF isOnline THEN {"ok"} ELSE {"error"}) : Logout(net)
    \/ FaceLoginAny
    \/ RegisterFaceAny
    \/ \E descriptor \in GalleryDescriptors : RemoteEnroll("u1", descriptor)
    \/ ReauthFinishAny
    \/ SyncCall
    \/ SyncFetchAny({"ok"})

SpecFace == InitFace /\ [][NextFace]_vars

(* C16: every face login that produces a session is preceded, in the same  *)
(* login attempt, by a liveness check of the video feed that passed.       *)
C16_LivenessBeforeSession ==
    (last.op = "FaceLogin" /\ last.res = "ok") => liveness = "passed"

(* the gallery entries a resolution of `captured` scans, in scan order:    *)
(* the local gallery, then the rows of the remote gallery if it is scanned *)
RemoteEntries(rows) == [i \in 1..Len(rows) |-> FaceData(rows[i].user_id, rows[i].face_descriptor)]

ScanOrder(store, rem, sb, remoteScanned) ==
    getAllFaceData(store) \o
      (IF remoteScanned THEN RemoteEntries(selectFaceData(rem, sb)) ELSE <<>>)

Below(gallery, captured) ==
    {i \in 1..Len(gallery) :
       /\ Len(gallery[i].faceDescriptor) > 0
       /\ compareFaceDescriptors(captured, gallery[i].faceDescriptor) < Threshold}

(* the first entry, in scan order, of minimum distance below the threshold *)
FirstMinimum(gallery, captured) ==
    CHOOSE i \in Below(gallery, captured) :
      \A j \in Below(gallery, captured) :
        LET di == compareFaceDescriptors(captured, gallery[i].faceDescriptor)
            dj == compareFaceDescriptors(captured, gallery[j].faceDescriptor)
        IN di < dj \/ (di = dj /\ i <= j)

(* C17: identity resolution returns the entry of minimum distance to the   *)
(* captured descriptor among the scanned entries whose distance is         *)
(* strictly below 0.7, the earliest in scan order (local gallery, then     *)
(* remote) among entries of equal minimum distance, and no match when no   *)
(* scanned entry is below 0.7.                                             *)
C17_MinimumBelowThreshold ==
    [][last'.op = "FaceLogin" =>
         LET captured == resolved'.captured
             gallery == ScanOrder(faceData, remoteFaceData, sbUser,
                                  resolved'.remoteScanned)
         IN IF Below(gallery, captured) = {}
            THEN /\ resolved'.matchedUserId = NoUser
                 /\ resolved'.bestMatchDistance = Infinity
            ELSE LET fd == gallery[FirstMinimum(gallery, captured)]
                 IN /\ resolved'.matchedUserId = fd.userId
                    /\ resolved'.bestMatchDistance =
                         compareFaceDescriptors(captured, fd.faceDescriptor)]_vars

C17_Witness ==
    /\ last.op = "FaceLogin"
    /\ resolved.captured = <<3>>
    /\ {FaceData("u1", <<0>>), FaceData("u2", <<6>>)} \subseteq faceData
    /\ resolved.matchedUserId = "u1"
    /\ resolved.bestMatchDistance = 3

(* the match of the last resolution came from the remote gallery *)
RemoteMatch(r) == r.remoteScanned /\ r.matchedUserId # NoUser

(* the descriptor matched remotely is in the local gallery, and resolving  *)
(* it again matches it locally at distance 0 without the remote gallery    *)
CacheFilled(store, rem, r) ==
    LET descriptor == rem[r.matchedUserId]
        again == localScan(getAllFaceData(store), descriptor, NoMatch)
    IN /\ FaceData(r.matchedUserId, descriptor) \in store
       /\ again = Match(r.matchedUserId, 0)
       /\ ~remoteWanted(again, TRUE)

----------------------------------------------------------------------------
(* Specification SpecStore: any sequence of saveUserDetails and            *)
(* saveFaceData calls on an empty Local Store, while time passes.          *)

InitStore ==
    /\ InitCommon
    /\ modelsLoaded = FALSE
    /\ isOnline = TRUE
    /\ userSession = Null
    /\ timers = 0
    /\ cachedUsers = [u \in Users |-> Null]
    /\ userDetails = {}
    /\ nextId = 1
    /\ sbUser = "none"
    /\ faceData = {}

(* IndexedDBService.saveUserDetails(details) *)
SaveUserDetails(userId, name, pendingSync, out) ==
    /\ userDetails' = IF out = "ok"
                      THEN saveUserDetails(userDetails, nextId, userId, name, now,
                                           pendingSync)
                      ELSE userDetails
    /\ nextId' = IF out = "ok" THEN saveUserDetailsNextId(userDetails, nextId, userId)
                 ELSE nextId
    /\ last' = Step("saveUserDetails", out)
    /\ UNCHANGED <<isOnline, coordVars, syncVars, cachedUsers, remoteVars, now, faceVars,
                   cameraVars, modelVars, deviceVars, modalError>>

(* IndexedDBService.saveFaceData(faceData) *)
SaveFaceData(userId, descriptor, out) ==
    /\ faceData' = IF out = "ok" THEN saveFaceData(faceData, FaceData(userId, descriptor))
                   ELSE faceData
    /\ last' = Step("saveFaceData", out)
    /\ UNCHANGED <<isOnline, coordVars, syncVars, localVars, remoteVars, now,
                   remoteFaceData, liveness, resolved, cameraVars, modelVars, deviceVars, modalError>>

NextStore ==
    \/ \E u \in Users, name \in Names, pendingSync \in BOOLEAN, out \in StoreOutcomes :
         SaveUserDetails(u, name, pendingSync, out)
    \/ \E u \in Users, descriptor \in GalleryDescriptors, out \in StoreOutcomes :
         SaveFaceData(u, descriptor, out)
    \/ Tick

SpecStore == InitStore /\ [][NextStore]_vars

(* C19: the Local Store holds at most one profile record and at most one   *)
(* enrolled descriptor per userId, and a saveUserDetails call for a userId *)
(* that has a record keeps the record's surrogate id.                      *)
C19_OnePerUser ==
    /\ [](\A u \in Users :
            /\ Cardinality({r \in userDetails : r.userId = u}) <= 1
            /\ Cardinality({r \in faceData : r.userId = u}) <= 1)
    /\ [][\A r \in userDetails :
            \E q \in userDetails' : q.userId = r.userId /\ q.id = r.id]_vars

C19_Witness ==
    /\ last.op = "saveUserDetails"
    /\ last.res = "ok"
    /\ \E r \in userDetails, q \in userDetails :
         /\ r.id = 1 /\ r.updatedAt = 1
         /\ q.id = 2 /\ q.updatedAt = 0
    /\ Cardinality(faceData) = 2

----------------------------------------------------------------------------
(* Specification SpecCamera: any interleaving of cameraManager.getStream   *)
(* and cameraManager.releaseStream calls.                                  *)

InitCamera ==
    /\ InitCommon
    /\ modelsLoaded = FALSE
    /\ isOnline = TRUE
    /\ userSession = Null
    /\ timers = 0
    /\ cachedUsers = [u \in Users |-> Null]
    /\ userDetails = {}
    /\ nextId = 1
    /\ sbUser = "none"
    /\ faceData = {}

NextCamera ==
    \/ \E video \in VideoElements : GetStream(video)
    \/ ReleaseStream
    \/ \E c \in cameraCalls : Settle(c)
    \/ \E c \in cameraCalls, out \in {"ok", "fail"} : GetUserMedia(c, out)
    \/ \E c \in cameraCalls, out \in {"playing", "error"} : Loaded(c, out)

SpecCamera == InitCamera /\ [][NextCamera]_vars

(* C20: camera singleton.  Whatever the interleaving of getStream and      *)
(* releaseStream calls, at most one acquired stream has tracks that are    *)
(* not stopped.                                                            *)
C20_CameraSingleton == Cardinality(liveStreams) <= 1

----------------------------------------------------------------------------
(* Properties of a sync run's failures and broadcasts, checked under       *)
(* SpecSync                                                                *)

(* C23: per-record isolation.  When the record loop of a run leaves a      *)
(* record whose queue holds further pending records, whether syncRecord    *)
(* returned or threw, the run goes on with the remaining records.          *)
C23_RecordIsolation ==
    [][\A run \in runs :
         (/\ run.pc = "records"
          /\ Len(run.queue) > 1
          /\ last'.op = "SyncRecord"
          /\ run \notin runs')
         => Run("records", Tail(run.queue)) \in runs']_vars

(* C24: a rejected pending-set fetch aborts the run with no remote write,  *)
(* and the catch block of that run, when it is the one that resumes next,  *)
(* broadcasts isSyncing = false with an error.                             *)
C24_FetchFailureSurfaced ==
    [][/\ (last'.op = "SyncFetch" /\ last'.res = "threw")
          => (remoteDetails' = remoteDetails /\ runs' = runs \ {Run("fetch", <<>>)})
       /\ (/\ last.op = "SyncFetch"
           /\ last.res = "threw"
           /\ Recounting = 1
           /\ last'.op = "SyncRecount")
          => (/\ last'.res = "error"
              /\ last'.status.isSyncing = FALSE
              /\ last'.status.error # NoError)]_vars

(* C25: the pendingCount of every completion broadcast (isSyncing = false) *)
(* is the number of pendingSync records the Local Store holds when the     *)
(* broadcast is made, and lastSyncTime is present exactly on success.      *)
C25_PendingCountIsTrue ==
    (last.status # NoBroadcast /\ ~last.status.isSyncing)
    => /\ last.status.pendingCount = getPendingCount(userDetails)
       /\ (last.status.lastSyncTime # NoTime) <=> (last.status.error = NoError)

(* the runs that have not finished: in their try block or in their catch   *)
(* block                                                                   *)
Unfinished == Cardinality(runs) + Recounting

(* C26: the step that starts a run broadcasts isSyncing = true before any  *)
(* fetch or write of the run, and a step finishes a run exactly when it    *)
(* broadcasts isSyncing = false, so each run is closed by one such         *)
(* broadcast whether it succeeded or failed.                               *)
C26_BroadcastBracket ==
    [][/\ (Run("fetch", <<>>) \in runs' \ runs)
          => (last'.status = Status(TRUE, NoTime, 0, NoError)
              /\ remoteDetails' = remoteDetails /\ userDetails' = userDetails)
       /\ (Unfinished' < Unfinished)
          <=> (last'.status # NoBroadcast /\ ~last'.status.isSyncing)]_vars

(* C27: the engine returns from Running to Idle.  The flag is true only    *)
(* while a run is inside its try block, so once a run has left it, by its  *)
(* last record, by an empty pending set or by an exception, a later        *)
(* syncPendingData call starts a new run instead of returning at the       *)
(* guard.                                                                  *)
C27_ReturnsToIdle ==
    /\ [](isSyncing <=> runs # {})
    /\ [][(last'.op = "SyncCall" /\ runs = {})
           => (last'.res = "run" /\ Run("fetch", <<>>) \in runs')]_vars

(* a run has finished and set lastSyncTime, and the next call starts a run *)
C27_Witness ==
    /\ last.op = "SyncCall"
    /\ last.res = "run"
    /\ lastSyncTime # NoTime
    /\ Recounting = 0
    /\ runs = {Run("fetch", <<>>)}

(* C28: a syncPendingData call made while the flag is set is a silent      *)
(* no-op: it broadcasts nothing and leaves the engine, the Local Store and *)
(* the remote store as they were; a run starts only in a call that found   *)
(* the flag clear, so the call is not queued and no run starts by itself   *)
(* when the current one ends.                                              *)
C28_SilentNoOp ==
    [][/\ (last'.op = "SyncCall" /\ isSyncing)
          => (/\ last'.status = NoBroadcast
              /\ UNCHANGED <<syncVars, localVars, remoteVars>>)
       /\ (Run("fetch", <<>>) \in runs' \ runs)
          => (last'.op = "SyncCall" /\ ~isSyncing /\ timers' = timers - 1)]_vars

(* a call returned at the guard while a run was awaiting its records *)
C28_Witness ==
    /\ last.op = "SyncCall"
    /\ last.res = "noop"
    /\ isSyncing
    /\ \E run \in runs : run.pc = "records"

----------------------------------------------------------------------------
(* Properties of the session a face login opens, checked under SpecFace *)

(* C22: a successful face login opens the session of the matched user by   *)
(* the transition a password login takes, and the session is               *)
(* online-authenticated only if the remote sign-in with the cached secret  *)
(* succeeded during that login, which leaves the remote client signed in   *)
(* as that user; a login without it is offline-authenticated and leaves    *)
(* the remote client as it was.                                            *)
C22_FaceLoginSession ==
    [][(last'.op = "FaceLogin" /\ last'.res = "ok")
       => /\ userSession = Null
          /\ userSession' # Null
          /\ userSession'.userId = resolved'.matchedUserId
          /\ cachedUsers[userSession'.userId] # Null
          /\ ~userSession'.isOfflineMode
             => (/\ isOnline
                 /\ sbUser' = userSession'.userId
                 /\ cachedUsers[sbUser'].encryptedPassword # NoSecret
                 /\ decryptPassword(cachedUsers[sbUser'].encryptedPassword)
                      = remotePw[sbUser'])
          /\ userSession'.isOfflineMode => sbUser' = sbUser
          /\ timers' = timers + (IF isOnline THEN 1 ELSE 0)
                              + listenerTimers(isOnline, userSession', userDetails)
          /\ reauths' = reauths \cup listenerReauths(isOnline, userSession')]_vars

(* u2's face was recognised while online after a sign-out, and the sign-in *)
(* with the cached secret was accepted                                     *)
C22_Witness ==
    /\ last.op = "FaceLogin"
    /\ last.res = "ok"
    /\ userSession = Session("u2", FALSE)
    /\ sbUser = "u2"
    /\ resolved.matchedUserId = "u2"

----------------------------------------------------------------------------
(* Specification SpecModels: any interleaving of calls of the exported     *)
(* functions of faceRecognitionService that need the models, from a fresh  *)
(* page; a load may fail.                                                  *)

InitModels ==
    /\ InitCommon
    /\ modelsLoaded = FALSE
    /\ isOnline = TRUE
    /\ userSession = Null
    /\ timers = 0
    /\ cachedUsers = [u \in Users |-> Null]
    /\ userDetails = {}
    /\ nextId = 1
    /\ sbUser = "none"
    /\ faceData = {}

NextModels ==
    \/ \E f \in ModelCallers : ModelCall(f)
    \/ \E f \in ModelCallers, out \in {"ok", "fail"} : ModelLoad(f, out)
    \/ \E f \in ModelCallers, detection \in {"face", "noFace"} : ModelReturn(f, detection)

SpecModels == InitModels /\ [][NextModels]_vars

(* C21: the models are initialised once.  Whatever the interleaving of     *)
(* first calls, at most one load of the models is under way: a call that   *)
(* needs the models while a load is under way waits for that load.         *)
C21_SingleLoad == Cardinality(Loading) <= 1

----------------------------------------------------------------------------
(* Properties of the order of reauth attempts, checked under Spec *)

(* the handleReauth call that the step just taken resumed and finished *)
Finished == IF last'.op = "ReauthFinish" THEN reauths \ reauths' ELSE {}

(* C29: reauth attempts are ordered.  A silent attempt that found the      *)
(* cached secret signs in remotely with it; one that found none makes no   *)
(* remote sign-in and fails; the prompt is raised only by a silent attempt *)
(* that failed; and the session flag changes only in an attempt, silent    *)
(* or with the password typed at the prompt, whose password the remote     *)
(* store accepted.                                                         *)
C29_ReauthOrder ==
    [][/\ \A r \in Finished :
            /\ (r.pw = Silent /\ reauthUsesRemote(cachedUsers, r) /\ last'.res = "ok")
               => (/\ isOnline
                   /\ decryptPassword(cachedUsers[r.S.userId].encryptedPassword)
                        = remotePw[r.S.userId]
                   /\ sbUser' = r.S.userId)
            /\ (r.pw = Silent /\ ~reauthUsesRemote(cachedUsers, r))
               => (/\ last'.res = "failed"
                   /\ sbUser' = sbUser
                   /\ cachedUsers' = cachedUsers
                   /\ userSession' = userSession
                   /\ showReauthModal')
            /\ (r.pw # Silent /\ last'.res = "ok")
               => (isOnline /\ r.pw = remotePw[r.S.userId] /\ sbUser' = r.S.userId)
       /\ (~showReauthModal /\ showReauthModal')
          => (last'.res = "failed" /\ \E r \in Finished : r.pw = Silent)
       /\ (OfflineSession /\ userSession' # userSession /\ userSession' # Null)
          => (last'.res = "ok" /\ Finished # {})]_vars

(* a silent attempt on a device whose cached entry holds no secret has     *)
(* failed without signing in, and the prompt is up                         *)
C29_Witness ==
    /\ last.op = "ReauthFinish"
    /\ last.res = "failed"
    /\ OfflineSession
    /\ cachedUsers[userSession.userId].encryptedPassword = NoSecret
    /\ showReauthModal
    /\ reauths = {}
    /\ sbUser = "none"

(* C30: a failed silent reauth shows no error.  It raises the prompt and   *)
(* leaves the modal's message as it was, empty when the prompt was not up; *)
(* a message appears only when an attempt made with a password typed at    *)
(* the prompt fails, and only while the prompt is up.                      *)
C30_SilentFailureQuiet ==
    /\ [](modalError # NoError => (showReauthModal /\ userSession # Null))
    /\ [][/\ (modalError' # NoError /\ modalError' # modalError)
              => (last'.res = "failed" /\ \E r \in Finished : r.src = "modal" /\ r.pw # Silent)
           /\ \A r \in Finished :
                (r.pw = Silent /\ last'.res = "failed")
                => (showReauthModal' /\ modalError' = modalError)]_vars

(* the password typed at the prompt was refused and the modal says so *)
C30_Witness ==
    /\ last.op = "ReauthFinish"
    /\ last.res = "failed"
    /\ modalError = InvalidPassword
    /\ showReauthModal
    /\ OfflineSession

----------------------------------------------------------------------------
(* Properties of the session across logout, checked under Spec *)

(* C37: a logged-out coordinator stays logged out until a login succeeds.  *)
(* A session appears only in a successful password or face login, so a     *)
(* handleReauth call that was in flight at logout cannot bring the session *)
(* back when it completes.                                                 *)
C37_LoggedOutUntilLogin ==
    [][(userSession = Null /\ userSession' # Null)
       => (last'.op \in {"Login", "FaceLogin"} /\ last'.res = "ok")]_vars

(* C39: reauthPending implies an offline-authenticated session, in every   *)
(* reachable state.                                                        *)
C39_PromptOnlyOffline == showReauthModal => OfflineSession

----------------------------------------------------------------------------
(* A save that lands inside a sync run, checked under SpecSync *)

(* C38: a save that stored a record with pendingSync = true after the run  *)
(* fetched that record, and before the run's syncRecord of it, is not      *)
(* lost: after that syncRecord the stored record is still pending, or the  *)
(* remote row carries the saved fields.                                    *)
C38_SaveDuringRunKept ==
    [][\A run \in runs :
         (run.pc = "records" /\ last'.op = "SyncRecord" /\ run \notin runs')
         => \A r \in userDetails :
              (r.id = Head(run.queue).id /\ r # Head(run.queue) /\ r.pendingSync)
              => \/ \E q \in userDetails' : q.id = r.id /\ q.pendingSync
                 \/ remoteDetails'[r.userId] = RemoteRow(r.name, r.updatedAt)]_vars

----------------------------------------------------------------------------
(* The local gallery across identity resolution, checked under SpecFace *)

(* C40: handleFaceLogin changes the local gallery by at most the entry of  *)
(* the user it returns as the match, written with the descriptor the       *)
(* remote store holds for that user; when the local gallery matched, or    *)
(* nothing matched, the local gallery is unchanged.                        *)
C40_GalleryFrame ==
    [][last'.op = "FaceLogin" =>
         /\ \A fd \in faceData' \ faceData :
               /\ fd.userId = resolved'.matchedUserId
               /\ fd.faceDescriptor = remoteFaceData[fd.userId]
               /\ resolved'.remoteScanned
         /\ \A fd \in faceData \ faceData' : fd.userId = resolved'.matchedUserId
         /\ (\/ resolved'.matchedUserId = NoUser
             \/ localScan(getAllFaceData(faceData), resolved'.captured, NoMatch) # NoMatch)
            => faceData' = faceData]_vars

(* the remote gallery was scanned, its row did not match, and the row is   *)
(* not in the local gallery                                                *)
C40_Witness ==
    /\ last.op = "FaceLogin"
    /\ resolved.remoteScanned
    /\ resolved.matchedUserId = NoUser
    /\ sbUser \in Users
    /\ remoteFaceData[sbUser] # NoRow
    /\ ~hasFaceData(faceData, sbUser)

----------------------------------------------------------------------------
(* Specification SpecConnectivity: components subscribing to and           *)
(* unsubscribing from the ConnectivityDetector, in any order and more than *)
(* once, while the browser reports online and offline events.              *)

InitConnectivity ==
    /\ InitCommon
    /\ modelsLoaded = FALSE
    /\ isOnline \in BOOLEAN
    /\ userSession = Null
    /\ timers = 0
    /\ cachedUsers = [u \in Users |-> Null]
    /\ userDetails = {}
    /\ nextId = 1
    /\ sbUser = "none"
    /\ faceData = {}

NextConnectivity ==
    \/ \E l \in ListenerNames : AddListener(l)
    \/ \E l \in ListenerNames : RemoveListener(l)
    \/ \E online \in BOOLEAN : HandleEvent(online)

SpecConnectivity == InitConnectivity /\ [][NextConnectivity]_vars

Registered == {listeners[i] : i \in 1..Len(listeners)}

(* C36: addListener(l) invokes l at once with the current isOnline; an     *)
(* online or offline event invokes every registered listener, once per     *)
(* registration and in order, with the new value; removeListener(l) leaves *)
(* no registration of l, and no step invokes a listener that is not        *)
(* registered after it; and getStatus() is the value every registered      *)
(* listener was last invoked with.                                         *)
C36_ListenerContract ==
    /\ [](\A l \in Registered : delivered[l] = <<getStatus>>)
    /\ [][/\ last'.op = "AddListener"
              => /\ calls' = <<Invocation(last'.res, isOnline)>>
                 /\ isOnline' = isOnline
                 /\ last'.res \in Registered'
          /\ last'.op = "HandleEvent"
              => /\ Len(calls') = Len(listeners)
                 /\ \A i \in 1..Len(listeners) :
                       calls'[i] = Invocation(listeners[i], isOnline')
                 /\ isOnline' = (last'.res = "online")
          /\ last'.op = "RemoveListener"
              => (last'.res \notin Registered' /\ calls' = <<>>)
          /\ \A i \in 1..Len(calls') : calls'[i].listener \in Registered'
          /\ \A l \in ListenerNames :
                (\A i \in 1..Len(calls') : calls'[i].listener # l)
                => delivered'[l] = delivered[l]]_vars

(* l1 was subscribed and then unsubscribed; the event that followed went   *)
(* to l2 alone, and l1 keeps the value it saw last                         *)
C36_Witness ==
    /\ last.op = "HandleEvent"
    /\ listeners = <<"l2">>
    /\ calls = <<Invocation("l2", isOnline)>>
    /\ delivered["l1"] = <<~isOnline>>

----------------------------------------------------------------------------
(* C35: a model-load failure reaches the caller of captureFaceDescriptor   *)
(* or detectFace as an outcome of its own: when the load such a call       *)
(* waited for fails, the call hands back something other than what it      *)
(* hands back when the frame shows no face.                                *)
C35_LoadFailureDistinct ==
    [][\A f \in {"captureFaceDescriptor", "detectFace"} :
         (/\ modelCalls[f] = "loading"
          /\ last'.op = "ModelLoad"
          /\ last'.res = "fail"
          /\ modelCalls'[f] # modelCalls[f])
         => modelCalls'[f] # returned(f, "noFace")]_vars

----------------------------------------------------------------------------
(* Specification SpecCapture: biometric logins on a device that holds u1's *)
(* and u2's credentials, each login running its capture loop first; an     *)
(* extraction may give a descriptor, find no face, or be cut off by the    *)
(* timer.                                                                  *)

InitCapture ==
    /\ InitCommon
    /\ modelsLoaded = TRUE
    /\ isOnline \in BOOLEAN
    /\ userSession = Null
    /\ timers = 0
    /\ cachedUsers = [u \in Users |-> CachedUser("p")]
    /\ userDetails = {}
    /\ nextId = 1
    /\ sbUser = "none"
    /\ faceData = {FaceData("u2", <<6>>)}

CaptureAttemptAny ==
    \/ \E descriptor \in Extractions \cup {NoDescriptor} : CaptureAttempt("resolved", descriptor)
    \/ CaptureAttempt("timeout", NoDescriptor)

NextCapture ==
    \/ CaptureStart
    \/ CaptureAttemptAny
    \/ \E storeOut \in StoreOutcomes :
         \E selNet \in (IF isOnline THEN {"ok", "error"} ELSE {"none"}) :
           CaptureResolve(selNet, storeOut, selNet)
    \/ \E net \in (IF isOnline THEN {"ok"} ELSE {"error"}) : Logout(net)

SpecCapture == InitCapture /\ [][NextCapture]_vars

(* C33: identity resolution of a biometric login runs on the componentwise *)
(* mean of at least 3 extractions gathered in at most 5 attempts, never on *)
(* a descriptor built from fewer.                                          *)
C33_MeanOfThree ==
    [][last'.op = "FaceLogin"
       => /\ Len(capture.descriptors) >= 3
          /\ capture.i < maxAttempts
          /\ resolved'.captured = getAverageDescriptor(capture.descriptors)]_vars

----------------------------------------------------------------------------
(* Specification SpecLiveness: liveness checks one after the other, the    *)
(* models loaded; every attempt may give one of the sample kinds, find no  *)
(* face, or be cut off by the timer.                                       *)

InitLiveness ==
    /\ InitCommon
    /\ modelsLoaded = TRUE
    /\ isOnline = TRUE
    /\ userSession = Null
    /\ timers = 0
    /\ cachedUsers = [u \in Users |-> Null]
    /\ userDetails = {}
    /\ nextId = 1
    /\ sbUser = "none"
    /\ faceData = {}

SampleAttemptAny(kinds) ==
    \/ \E detection \in kinds \cup {NoDetection} : SampleAttempt("resolved", detection)
    \/ SampleAttempt("timeout", NoDetection)

NextLiveness ==
    \/ LivenessStart
    \/ SampleAttemptAny(SampleKinds)

SpecLiveness == InitLiveness /\ [][NextLiveness]_vars

(* The three signals of a sample set, as the thresholds state them *)
SizeSignal(samples) ==
    LET n == Len(samples)
        total == sum([i \in 1..n |-> samples[i].size])
    IN \E i \in 1..n : 1000 * abs(n * samples[i].size - total) >= 5 * total

EyeSignal(samples) ==
    \E i \in 1..(Len(samples) - 1) :
       1000 * abs(samples[i + 1].eye - samples[i].eye) >= 2 * samples[i].eye

Drift(samples) ==
    sum([i \in 1..(Len(samples) - 1) |->
           abs(samples[i + 1].descriptor[1] - samples[i].descriptor[1])])

C32_PhotoRejected ==
    (/\ sampling.pc = "done"
     /\ Len(sampling.samples) >= 4
     /\ ~SizeSignal(sampling.samples)
     /\ ~EyeSignal(sampling.samples)
     /\ Drift(sampling.samples) < 8 * (Len(sampling.samples) - 1))
    => (~sampling.result.passed /\ sampling.result.reason \in PhotoDetected)

(* a set of six samples that differ, by less than every threshold *)
C32_Witness ==
    /\ sampling.pc = "done"
    /\ Len(sampling.samples) = 6
    /\ \E i \in 1..5 : sampling.samples[i] # sampling.samples[i + 1]
    /\ ~SizeSignal(sampling.samples)
    /\ ~EyeSignal(sampling.samples)
    /\ Drift(sampling.samples) < 8 * 5
    /\ sampling.result = Failed(PhotoSize)

----------------------------------------------------------------------------
(* Specification SpecStalled: a liveness check and the capture loop of a   *)
(* biometric login, side by side, on a camera that may stall: any attempt  *)
(* may end by its timer instead of a detection.  Each attempt is a         *)
(* Promise.race against setTimeout(3000); the browser fires a timer that   *)
(* is due, so an attempt that is pending does settle: weak fairness of the *)
(* attempt steps.                                                          *)

InitStalled ==
    /\ InitCommon
    /\ modelsLoaded = TRUE
    /\ isOnline = TRUE
    /\ userSession = Null
    /\ timers = 0
    /\ cachedUsers = [u \in Users |-> Null]
    /\ userDetails = {}
    /\ nextId = 1
    /\ sbUser = "none"
    /\ faceData = {}

CaptureAttemptStalled ==
    \/ \E descriptor \in {<<6>>, NoDescriptor} : CaptureAttempt("resolved", descriptor)
    \/ CaptureAttempt("timeout", NoDescriptor)

NextStalled ==
    \/ LivenessStart
    \/ SampleAttemptAny({Still})
    \/ CaptureStart
    \/ CaptureAttemptStalled

SpecStalled ==
    /\ InitStalled
    /\ [][NextStalled]_vars
    /\ WF_vars(SampleAttemptAny({Still}))
    /\ WF_vars(CaptureAttemptStalled)

(* attempts the sampling loop can still make *)
AttemptsLeft(c) == 2 * (sampleCount - c.i - 1) + c.retries

(* C34: a stalled camera cannot hang the pipeline.  A liveness check that  *)
(* has started reaches its result, within 6 slots of at most 2 attempts    *)
(* each: every attempt that settles, by its timer too, uses up one of the  *)
(* at most 12 attempts left.  A capture loop that has started ends within  *)
(* 5 attempts: every attempt that settles ends the loop or moves on to the *)
(* next of the 5.                                                          *)
C34_StalledCameraTerminates ==
    /\ [](sampling.pc = "attempt"
            => (/\ sampling.i < sampleCount
                /\ sampling.retries \in 1..2
                /\ AttemptsLeft(sampling) <= 2 * sampleCount))
    /\ [](capture.pc = "attempt" => capture.i < maxAttempts)
    /\ [][last'.op = "SampleAttempt"
           => \/ sampling'.pc = "done"
              \/ AttemptsLeft(sampling') < AttemptsLeft(sampling)]_vars
    /\ [][last'.op = "CaptureAttempt"
           => \/ capture'.pc \in {"failed", "averaged"}
              \/ capture'.i = capture.i + 1]_vars
    /\ (sampling.pc = "attempt" ~> sampling.pc = "done")
    /\ (capture.pc = "attempt" ~> capture.pc \in {"failed", "averaged"})

(* both loops ran to their end without a single detection: the liveness    *)
(* check reports too few samples, the login reports a failed capture       *)
C34_Witness ==
    /\ sampling.pc = "done"
    /\ sampling.samples = <<>>
    /\ sampling.i = sampleCount
    /\ sampling.result = Failed(NotEnoughSamples)
    /\ capture.pc = "failed"
    /\ capture.i = maxAttempts
    /\ last.res = "timeout"

====
